---------------------------- MODULE Spec2Model ----------------------------
(***************************************************************************)
(* Name reconciliation and pay computation core of the PRL timesheet       *)
(* portal.  Two deployed scripts are modelled side by side:                *)
(*   "app"     - src/app.py (the core of the three scripts collected in    *)
(*               src/unnamed/part_000 is line for line the same)           *)
(*   "app_100" - src/app_100%.py                                           *)
(*                                                                         *)
(* Strings are sequences of characters; a character is one of the tokens   *)
(* of Chars.  Hours are integers in hundredths of an hour, rates integers  *)
(* in pence per hour, similarity ratios exact fractions in lowest terms.   *)
(***************************************************************************)
EXTENDS Integers, Sequences, FiniteSets, TLC

(***************************************************************************)
(* Bounds of the model                                                     *)
(***************************************************************************)
\* longest raw string fed to normalize_name on its own
MaxNameLen == 3
\* longest extracted name fed to lookup_match
MaxLookupLen == 2
\* most rows of a rate sheet
MaxRows == 2
\* most daily entries of one timesheet
MaxEntries == 3
\* the rows of the tables of a load, all tables together
MaxLoadRows == 3
\* the length of an hours token
MaxTokenLen == 4
\* the rows of a .docx table
MaxDocxRows == 2

\* the timesheet files of an upload
MaxFiles == 2

\* the rows the history table holds, at most
MaxStored == 6

(***************************************************************************)
(* State                                                                   *)
(***************************************************************************)
VARIABLES
    variant,               \* the deployed script
    last_call,             \* the function that ran last, "none" before any
    given_name,            \* normalize_name: the string given
    given_norm,            \*   its result
    given_norm_again,      \*   the result of normalizing the result
    alt_name,              \*   a string differing in case, accents, punctuation
    alt_norm,              \*   its result
    rate_sources,          \* the tables of rate rows, in load order
    rate_rows,             \* the rows of the tables loaded, in load order
    custom_rates,          \* the four values load_rate_database returned
    normalized_rates,
    normalized_keys,
    norm_to_raw,
    SIMILARITY_THRESHOLD,  \* the module global
    extracted_name,        \* lookup_match, calculate_pay: the name given
    match,                 \* lookup_match: its result
    daily,                 \* calculate_pay: the daily entries given
    pay,                   \* calculate_pay: its result
    hhmm,                  \* hhmm_to_float, float: the text given
    hhmm_hours,            \*   the result, in minutes
    docx_rows,             \* extract_timesheet_data: the (day, hours) cells of the table rows
    uploaded_files,        \* the timesheet files of the uploader
    df,                    \* the table of records the run of the script ended with
    timesheet_entries,     \* the rows of the history table
    override_applied,      \* the override or edit the run applied, None when it applied none
    raised,                \* the exception the run ended with, "none" when it ended normally
    ws,                    \* the sheet of the workbook the run built for the download
    new_thresh,            \* the position of the threshold slider of the Settings tab
    rate_file              \* the rows of the rate sheet at RATE_FILE_PATH, as they are on disk

(***************************************************************************)
(* Characters                                                              *)
(***************************************************************************)
\* "a_acute" is U+00E1, "A_acute" is U+00C1, "acute" is the combining
\* acute accent U+0301 (category Mn), "." stands for any punctuation.
Chars == {"a", "b", "A", "a_acute", "A_acute", "acute", ".", " ", "1"}

Variants == {"app", "app_100"}

\* the letters of the names used, lower case and upper case
LowerLetters == {"a", "b", "h", "i", "j", "m", "n", "o", "s", "t"}
UpperLetters == {"A", "B", "H", "I", "J", "M", "N", "O", "S", "T"}

\* the lower-case letter of an upper-case one
LowerOf ==
    [c \in UpperLetters |->
        CASE c = "A" -> "a" [] c = "B" -> "b" [] c = "H" -> "h" [] c = "I" -> "i"
          [] c = "J" -> "j" [] c = "M" -> "m" [] c = "N" -> "n"
          [] c = "O" -> "o" [] c = "S" -> "s" [] c = "T" -> "t"]

\* the decimal digits used
DigitChars == {"0", "1", "3", "5", "7", "8"}

\* every character of the model
Alphabet == Chars \cup LowerLetters \cup UpperLetters \cup DigitChars \cup {":", "-", "+"}

\* str.isspace / the regex class \s
IsSpace(c) == c = " "

\* the regex class [a-z]
IsLowerAZ(c) == c \in LowerLetters

\* the regex class [a-zA-Z]
IsLetterAZ(c) == c \in LowerLetters \cup UpperLetters

\* the regex class [0-9]
IsDigit(c) == c \in DigitChars

\* unicodedata.category(ch) == "Mn"
IsMn(c) == c = "acute"

\* the characters str.encode("ASCII", "ignore") keeps
IsAscii(c) == c \in LowerLetters \cup UpperLetters \cup DigitChars \cup {".", " ", ":", "-", "+"}

\* str.lower() on one character
LowerChar(c) ==
    CASE c \in UpperLetters -> LowerOf[c]
      [] c = "A_acute" -> "a_acute"
      [] OTHER -> c

\* canonical decomposition (NFD, and NFKD on these characters) of one character
Decompose(c) ==
    CASE c = "a_acute" -> <<"a", "acute">>
      [] c = "A_acute" -> <<"A", "acute">>
      [] OTHER -> <<c>>

(***************************************************************************)
(* String helpers                                                          *)
(***************************************************************************)
\* the first of a set of places
FirstPlace(places) == CHOOSE i \in places : \A j \in places : i <= j

\* str.lower()
Lower(s) == [i \in 1..Len(s) |-> LowerChar(s[i])]

RECURSIVE LStrip(_)
\* leading whitespace removed
LStrip(s) ==
    IF s # <<>> /\ IsSpace(Head(s)) THEN LStrip(Tail(s)) ELSE s

RECURSIVE RStrip(_)
\* trailing whitespace removed
RStrip(s) ==
    IF s # <<>> /\ IsSpace(s[Len(s)]) THEN RStrip(SubSeq(s, 1, Len(s) - 1)) ELSE s

\* str.strip()
Strip(s) == RStrip(LStrip(s))

RECURSIVE Normalize_NFD(_)
\* unicodedata.normalize("NFD", s) / ("NFKD", s)
Normalize_NFD(s) ==
    IF s = <<>> THEN <<>> ELSE Decompose(Head(s)) \o Normalize_NFD(Tail(s))

RECURSIVE Keep(_, _)
\* "".join(ch for ch in s if ch is one of keep)
Keep(s, keep) ==
    IF s = <<>> THEN <<>>
    ELSE IF Head(s) \in keep THEN <<Head(s)>> \o Keep(Tail(s), keep)
    ELSE Keep(Tail(s), keep)

RECURSIVE CollapseSpaces(_)
\* re.sub(r"\s+", " ", s)
CollapseSpaces(s) ==
    IF s = <<>> THEN <<>>
    ELSE IF IsSpace(Head(s))
         THEN <<" ">> \o CollapseSpaces(LStrip(s))
         ELSE <<Head(s)>> \o CollapseSpaces(Tail(s))

(***************************************************************************)
(* normalize_name                                                          *)
(***************************************************************************)
\* src/app.py: lower and strip, NFD, drop combining marks, drop what is not
\* [a-z0-9\s], collapse whitespace runs.  The strip comes first.
normalize_name(s) ==
    LET s1 == Strip(Lower(s))
        s2 == Normalize_NFD(s1)
        s3 == Keep(s2, {c \in Alphabet : ~IsMn(c)})
        s4 == Keep(s3, {c \in Alphabet : IsLowerAZ(c) \/ IsDigit(c) \/ IsSpace(c)})
    IN  CollapseSpaces(s4)

\* src/app_100%.py: NFKD, drop non-ASCII, keep letters only, lower
normalize_name_100(s) ==
    LET nfkd == Normalize_NFD(s)
        only_ascii == Keep(nfkd, {c \in Alphabet : IsAscii(c)})
    IN  Lower(Keep(only_ascii, {c \in Alphabet : IsLetterAZ(c)}))

\* the normalize_name of the deployed script
normalize(v, s) ==
    IF v = "app" THEN normalize_name(s) ELSE normalize_name_100(s)

(***************************************************************************)
(* Numbers                                                                 *)
(***************************************************************************)
RECURSIVE GCD(_, _)
\* greatest common divisor, GCD(n, 0) = n
GCD(m, n) == IF n = 0 THEN m ELSE GCD(n, m % n)

\* the float n/d, kept as the fraction in lowest terms: two floats are equal
\* exactly when their fractions are (numerators and denominators stay far
\* below 2^53, so distinct fractions round to distinct floats)
Rat(n, d) == [num |-> n \div GCD(n, d), den |-> d \div GCD(n, d)]

\* x > y on floats
RatGt(x, y) == x.num * y.den > y.num * x.den

\* x >= y on floats
RatGeq(x, y) == x.num * y.den >= y.num * x.den

\* the float literals 0.0 and 1.0
Zero == Rat(0, 1)
One == Rat(1, 1)

\* None and a present value of an optional
None == <<>>
Some(x) == <<x>>

(***************************************************************************)
(* difflib.SequenceMatcher(None, a, b).ratio()                             *)
(* No junk: isjunk is None and the autojunk heuristic needs 200 elements.  *)
(***************************************************************************)
RECURSIVE RunLen(_, _, _, _, _, _)
\* length of the common run of a[i..ahi-1] and b[j..bhi-1] starting at i and j
RunLen(a, b, i, j, ahi, bhi) ==
    IF i < ahi /\ j < bhi /\ a[i] = b[j]
    THEN 1 + RunLen(a, b, i + 1, j + 1, ahi, bhi)
    ELSE 0

\* find_longest_match: the longest block of a[alo..ahi-1] and b[blo..bhi-1],
\* of those the one starting earliest in a, of those the earliest in b
find_longest_match(a, b, alo, ahi, blo, bhi) ==
    LET cands == (alo .. ahi - 1) \X (blo .. bhi - 1)
        size(p) == RunLen(a, b, p[1], p[2], ahi, bhi)
        sizes == {size(p) : p \in cands} \cup {0}
        best == CHOOSE k \in sizes : \A m \in sizes : m <= k
        winners == {p \in cands : size(p) = best}
        first == CHOOSE p \in winners :
                   \A q \in winners : p[1] < q[1] \/ (p[1] = q[1] /\ p[2] <= q[2])
    IN  IF best = 0 THEN <<alo, blo, 0>> ELSE <<first[1], first[2], best>>

RECURSIVE matching_chars(_, _, _, _, _, _)
\* get_matching_blocks: the sizes of the blocks found by splitting around the
\* longest block, summed
matching_chars(a, b, alo, ahi, blo, bhi) ==
    LET m == find_longest_match(a, b, alo, ahi, blo, bhi)
        i == m[1]
        j == m[2]
        k == m[3]
    IN  IF k = 0 THEN 0
        ELSE k + (IF alo < i /\ blo < j
                  THEN matching_chars(a, b, alo, i, blo, j) ELSE 0)
               + (IF i + k < ahi /\ j + k < bhi
                  THEN matching_chars(a, b, i + k, ahi, j + k, bhi) ELSE 0)

\* ratio(): 2.0 * matches / (len(a) + len(b)), 1.0 for two empty strings
SequenceMatcher_ratio(a, b) ==
    IF Len(a) + Len(b) = 0 THEN One
    ELSE Rat(2 * matching_chars(a, b, 1, Len(a) + 1, 1, Len(b) + 1), Len(a) + Len(b))

(***************************************************************************)
(* Python dicts: sequences of <<key, value>> in insertion order            *)
(***************************************************************************)
DictKeys(d) == [i \in 1..Len(d) |-> d[i][1]]

DictHas(d, k) == \E i \in 1..Len(d) : d[i][1] = k

DictGet(d, k) == d[CHOOSE i \in 1..Len(d) : d[i][1] = k][2]

\* d[k] = v: an existing key keeps its place, a new key goes last
DictSet(d, k, v) ==
    IF DictHas(d, k)
    THEN [i \in 1..Len(d) |-> IF d[i][1] = k THEN <<k, v>> ELSE d[i]]
    ELSE Append(d, <<k, v>>)

RECURSIVE DictUpdate(_, _)
\* d.update(e)
DictUpdate(d, e) ==
    IF e = <<>> THEN d
    ELSE DictUpdate(DictSet(d, Head(e)[1], Head(e)[2]), Tail(e))

(***************************************************************************)
(* Program constants                                                       *)
(***************************************************************************)
\* DEFAULT_RATE = 15.0, in pence
DEFAULT_RATE == 1500

\* SIMILARITY_THRESHOLD = 0.60
SIMILARITY_THRESHOLD_0 == Rat(60, 100)

\* the values of the Settings slider: 0.50 to 0.90 in steps of 0.05
SliderValues == {Rat(50 + 5 * k, 100) : k \in 0..8}

\* a Pay Rate that pandas coerced to NaN and float() kept as nan
NaN == -1

(***************************************************************************)
(* load_rate_database                                                      *)
(* A row of a rate table is [Name, PayRate]: Name is [nan, str] (nan: the  *)
(* cell is empty), PayRate is [kind, val] with kind "num", "text" or "nan".*)
(***************************************************************************)
EmptyDir ==
    [custom_rates |-> <<>>, normalized_rates |-> <<>>,
     norm_to_raw |-> <<>>, normalized_keys |-> <<>>]

\* the rows that survive to_numeric(errors="coerce") and dropna:
\* app coerces first and drops on both columns, app_100 drops first, so a
\* text rate is kept there and coerced to NaN afterwards
Retained(v, row) ==
    IF v = "app"
    THEN ~row.Name.nan /\ row.PayRate.kind = "num"
    ELSE ~row.Name.nan /\ row.PayRate.kind # "nan"

\* float(row["Pay Rate"]) after the coercion
RowRate(row) == IF row.PayRate.kind = "num" THEN row.PayRate.val ELSE NaN

\* the body of the loop with the raw name of a key kept from its first row
LoadRow_first_raw(v, dir, row) ==
    [dir EXCEPT !.custom_rates = DictSet(@, Strip(row.Name.str), RowRate(row)),
                !.normalized_rates =
                    DictSet(@, normalize(v, Strip(row.Name.str)), RowRate(row)),
                !.norm_to_raw =
                    IF DictHas(@, normalize(v, Strip(row.Name.str))) THEN @
                    ELSE DictSet(@, normalize(v, Strip(row.Name.str)), Strip(row.Name.str))]

\* the body of the loop over the rows of a table
LoadRow(v, dir, row) ==
    LET raw_name == Strip(row.Name.str)
        rate == RowRate(row)
        norm == normalize(v, raw_name)
    IN  [dir EXCEPT !.custom_rates = DictSet(@, raw_name, rate),
                    !.normalized_rates = DictSet(@, norm, rate),
                    !.norm_to_raw = DictSet(@, norm, raw_name)]

RECURSIVE LoadRows(_, _, _)
\* the loop over the rows of a table, in order
LoadRows(v, dir, rows) ==
    IF rows = <<>> THEN dir
    ELSE IF Retained(v, Head(rows))
         THEN LoadRows(v, LoadRow(v, dir, Head(rows)), Tail(rows))
         ELSE LoadRows(v, dir, Tail(rows))

\* load_rate_database on the rows below the header; app also returns the
\* list of the keys of normalized_rates
load_rate_database(v, rows) ==
    LET dir == LoadRows(v, EmptyDir, rows)
    IN  IF v = "app"
        THEN [dir EXCEPT !.normalized_keys = DictKeys(dir.normalized_rates)]
        ELSE dir

\* a load of every run of the script, whatever the sheet holds
cache_data_off(entry, v, rows) == load_rate_database(v, rows)

\* @st.cache_data on load_rate_database: the entry stored for the path is
\* returned when there is one, the body runs on the sheet when there is none
cache_data(entry, v, rows) ==
    IF entry # None THEN entry[1] ELSE load_rate_database(v, rows)

\* the Settings tab of app.py: the global is the position of the slider
\* when the run ends; no other script has the slider
SettingsTab(v, slider) == IF v = "app" THEN slider ELSE SIMILARITY_THRESHOLD_0

RECURSIVE LoadSheets(_, _, _)
\* the loop over the sheets of a workbook: every sheet goes into the same dicts
LoadSheets(v, dir, sheets) ==
    IF sheets = <<>> THEN dir
    ELSE LoadSheets(v, LoadRows(v, dir, Head(sheets)), Tail(sheets))

\* normalized_keys = list(normalized_rates.keys()), in app.py only
WithKeys(v, dir) ==
    IF v = "app"
    THEN [dir EXCEPT !.normalized_keys = DictKeys(dir.normalized_rates)]
    ELSE dir

\* load_rate_database on a workbook of several sheets
load_rate_workbook(v, sheets) == WithKeys(v, LoadSheets(v, EmptyDir, sheets))

\* app_100%.py _merge: one source is loaded and the three dicts are updated
merge(dir, sheets) ==
    [custom_rates |->
         DictUpdate(dir.custom_rates, load_rate_workbook("app_100", sheets).custom_rates),
     normalized_rates |->
         DictUpdate(dir.normalized_rates, load_rate_workbook("app_100", sheets).normalized_rates),
     norm_to_raw |->
         DictUpdate(dir.norm_to_raw, load_rate_workbook("app_100", sheets).norm_to_raw),
     normalized_keys |-> <<>>]

RECURSIVE MergeUploads(_, _)
\* for f in uploads: _merge(f), every upload a workbook of one sheet
MergeUploads(dir, uploads) ==
    IF uploads = <<>> THEN dir
    ELSE MergeUploads(merge(dir, <<Head(uploads)>>), Tail(uploads))

\* the directory after the tables are loaded: the sheets of the rate file
\* in app.py, the uploaded workbooks in app_100%.py
LoadSources(v, tables) ==
    IF v = "app" THEN load_rate_workbook(v, tables) ELSE MergeUploads(EmptyDir, tables)

(***************************************************************************)
(* lookup_match                                                            *)
(* The result is (matched_raw, rate, ratio); ratio_calls counts the        *)
(* SequenceMatcher(...).ratio() evaluations the call made.                 *)
(***************************************************************************)
MatchResult(matched_raw, rate, ratio, calls) ==
    [matched_raw |-> matched_raw, rate |-> rate, ratio |-> ratio, ratio_calls |-> calls]

\* if not norm: return None, DEFAULT_RATE, 0.0
EmptyNameResult == MatchResult(None, DEFAULT_RATE, Zero, 0)

\* if norm in normalized_rates
ExactHit(dir, norm) == DictHas(dir.normalized_rates, norm)

\* ExactResult with the confidence recomputed as the similarity of the
\* canonical name and the stored raw name
ExactResult_recomputed(dir, norm) ==
    MatchResult(Some(DictGet(dir.norm_to_raw, norm)),
                DictGet(dir.normalized_rates, norm),
                SequenceMatcher_ratio(norm, DictGet(dir.norm_to_raw, norm)), 1)

\* return norm_to_raw[norm], normalized_rates[norm], 1.0
ExactResult(dir, norm) ==
    MatchResult(Some(DictGet(dir.norm_to_raw, norm)),
                DictGet(dir.normalized_rates, norm), One, 0)

\* Better with >= for >: of tied keys the last one wins
Better_or_equal(ratio, best_ratio) == RatGeq(ratio, best_ratio)

\* if ratio > best_ratio
Better(ratio, best_ratio) == RatGt(ratio, best_ratio)

\* the one element of a set of one
The(S) == CHOOSE x \in S : TRUE

RECURSIVE BestScan(_, _, _, _)
\* the loop over normalized_keys from index i on; best is (best_ratio, best_norm)
BestScan(keys, norm, i, best) ==
    IF i > Len(keys) THEN best
    ELSE BestScan(keys, norm, i + 1,
                  The({ IF Better(ratio, best.best_ratio)
                        THEN [best_ratio |-> ratio, best_norm |-> Some(keys[i])]
                        ELSE best
                        : ratio \in {SequenceMatcher_ratio(keys[i], norm)} }))

\* Accepted with the comparison turned round
Accepted_reversed(best, threshold) ==
    /\ best.best_norm # None
    /\ best.best_norm[1] # <<>>
    /\ RatGeq(threshold, best.best_ratio)

\* if best_norm and best_ratio >= SIMILARITY_THRESHOLD
\* (None and the empty string are both false)
Accepted(best, threshold) ==
    /\ best.best_norm # None
    /\ best.best_norm[1] # <<>>
    /\ RatGeq(best.best_ratio, threshold)

\* RejectedResult reporting 0.0 for the best ratio
RejectedResult_zero(best, calls) == MatchResult(None, DEFAULT_RATE, Zero, calls)

\* return None, DEFAULT_RATE, best_ratio
RejectedResult(best, calls) == MatchResult(None, DEFAULT_RATE, best.best_ratio, calls)

\* the fuzzy part of lookup_match of app
FuzzyResult(dir, norm, threshold) ==
    The({ IF Accepted(best, threshold)
          THEN MatchResult(Some(DictGet(dir.norm_to_raw, best.best_norm[1])),
                           DictGet(dir.normalized_rates, best.best_norm[1]),
                           best.best_ratio, Len(dir.normalized_keys))
          ELSE RejectedResult(best, Len(dir.normalized_keys))
          : best \in {BestScan(dir.normalized_keys, norm, 1,
                               [best_ratio |-> Zero, best_norm |-> None])} })

\* lookup_match of app
lookup_match_app(name, dir, threshold) ==
    LET norm == normalize_name(name)
    IN  IF norm = <<>> THEN EmptyNameResult
        ELSE IF ExactHit(dir, norm) THEN ExactResult(dir, norm)
        ELSE FuzzyResult(dir, norm, threshold)

\* lookup_match of app_100: exact lookup only, and the extracted name itself
\* with the literal 15.0 and 0.0 when there is no entry
lookup_match_100(name, dir) ==
    LET n == normalize_name_100(name)
    IN  IF ExactHit(dir, n) THEN ExactResult(dir, n)
        ELSE MatchResult(Some(name), 1500, Zero, 0)

\* lookup_match of the deployed script
lookup_match(v, name, dir, threshold) ==
    IF v = "app" THEN lookup_match_app(name, dir, threshold)
    ELSE lookup_match_100(name, dir)

(***************************************************************************)
(* calculate_pay                                                           *)
(* Pay is counted in quarters of (hundredth of an hour x penny), so that   *)
(* the factors 1.5 and 1.75 stay exact.                                    *)
(***************************************************************************)
\* the literal 50.0 of the overtime rule, in hundredths of an hour
OVERTIME_HOURS == 5000

Max(x, y) == IF x >= y THEN x ELSE y

Smaller(x, y) == IF x <= y THEN x ELSE y

\* x * 1.0, x * 1.5 and x * 1.75 in quarters
Times_1_0(x) == 4 * x
Times_1_5(x) == (4 * x * 3) \div 2
\* Times_1_75 with the Saturday factor
Times_1_75_as_1_5(x) == (4 * x * 3) \div 2
Times_1_75(x) == (4 * x * 7) \div 4

NoHours == [weekday_hours |-> 0, sat_hours |-> 0, sun_hours |-> 0]

\* TallyEntry with = for += on Saturdays
TallyEntry_assign(acc, entry) ==
    LET h == entry.hours
        wd == entry.weekday
    IN  IF wd = "Saturday" THEN [acc EXCEPT !.sat_hours = h]
        ELSE IF wd = "Sunday" THEN [acc EXCEPT !.sun_hours = @ + h]
        ELSE [acc EXCEPT !.weekday_hours = @ + h]

\* TallyEntry with Sunday hours counted as weekday hours too
TallyEntry_sunday_as_weekday(acc, entry) ==
    LET h == entry.hours
        wd == entry.weekday
    IN  IF wd = "Saturday" THEN [acc EXCEPT !.sat_hours = @ + h]
        ELSE IF wd = "Sunday" THEN [acc EXCEPT !.sun_hours = @ + h, !.weekday_hours = @ + h]
        ELSE [acc EXCEPT !.weekday_hours = @ + h]

\* the body of the loop over daily_data
TallyEntry(acc, entry) ==
    LET h == entry.hours
        wd == entry.weekday
    IN  IF wd = "Saturday" THEN [acc EXCEPT !.sat_hours = @ + h]
        ELSE IF wd = "Sunday" THEN [acc EXCEPT !.sun_hours = @ + h]
        ELSE [acc EXCEPT !.weekday_hours = @ + h]

RECURSIVE TallyHours(_, _)
\* the loop over daily_data, in order
TallyHours(acc, daily_data) ==
    IF daily_data = <<>> THEN acc
    ELSE TallyHours(TallyEntry(acc, Head(daily_data)), Tail(daily_data))

\* TotalPay without the overtime pay
TotalPay_no_overtime(pay_regular, pay_overtime, pay_sat, pay_sun) ==
    pay_regular + pay_sat + pay_sun

\* total_pay = pay_regular + pay_overtime + pay_sat + pay_sun
TotalPay(pay_regular, pay_overtime, pay_sat, pay_sun) ==
    pay_regular + pay_overtime + pay_sat + pay_sun

\* Overtime that starts a hundredth of an hour late
Overtime_late(weekday_hours) == Max(0, weekday_hours - (OVERTIME_HOURS + 1))

\* overtime = max(0.0, weekday_hours - 50.0)
Overtime(weekday_hours) == Max(0, weekday_hours - OVERTIME_HOURS)

\* regular_wd = weekday_hours - overtime
RegularWd(weekday_hours) == weekday_hours - Overtime(weekday_hours)

\* pay_regular = regular_wd * rate
PayRegular(weekday_hours, rate) == Times_1_0(RegularWd(weekday_hours) * rate)

\* pay_overtime = overtime * rate * 1.5
PayOvertime(weekday_hours, rate) == Times_1_5(Overtime(weekday_hours) * rate)

\* pay_sat = sat_hours * rate * 1.5
PaySat(sat_hours, rate) == Times_1_5(sat_hours * rate)

\* pay_sun = sun_hours * rate * 1.75
PaySun(sun_hours, rate) == Times_1_75(sun_hours * rate)

\* the pay rule applied to the match result m and the tallied hours; the code
\* returns (weekday_hours, sat_hours, sun_hours, rate, total_pay, matched_raw,
\* ratio), the other fields are its local variables
PayBreakdown(m, hours) ==
    [weekday_hours |-> hours.weekday_hours,
     sat_hours |-> hours.sat_hours,
     sun_hours |-> hours.sun_hours,
     rate |-> m.rate,
     total_pay |-> TotalPay(PayRegular(hours.weekday_hours, m.rate),
                            PayOvertime(hours.weekday_hours, m.rate),
                            PaySat(hours.sat_hours, m.rate),
                            PaySun(hours.sun_hours, m.rate)),
     matched_raw |-> m.matched_raw,
     ratio |-> m.ratio,
     overtime |-> Overtime(hours.weekday_hours),
     regular_wd |-> RegularWd(hours.weekday_hours),
     pay_regular |-> PayRegular(hours.weekday_hours, m.rate),
     pay_overtime |-> PayOvertime(hours.weekday_hours, m.rate),
     pay_sat |-> PaySat(hours.sat_hours, m.rate),
     pay_sun |-> PaySun(hours.sun_hours, m.rate)]

\* calculate_pay: the lookup, the tally, the pay rule
calculate_pay(name, daily_data, dir, threshold) ==
    PayBreakdown(lookup_match_app(name, dir, threshold),
                 TallyHours(NoHours, daily_data))

(***************************************************************************)
(* hhmm_to_float, and float() on the hours cell of a .docx row             *)
(* hhmm_to_float gives hours as minutes; float() gives hundredths.         *)
(***************************************************************************)
\* the value of a decimal digit
DigitVal(c) ==
    CASE c = "0" -> 0 [] c = "1" -> 1 [] c = "3" -> 3
      [] c = "5" -> 5 [] c = "7" -> 7 [] c = "8" -> 8

RECURSIVE DecimalValue(_)
\* the value of a string of decimal digits
DecimalValue(digits) ==
    IF digits = <<>> THEN 0
    ELSE 10 * DecimalValue(SubSeq(digits, 1, Len(digits) - 1)) + DigitVal(digits[Len(digits)])

AllDigits(s) == \A i \in 1..Len(s) : s[i] \in DigitChars

\* the places of a character in a string
PlacesOfChar(s, c) == {i \in 1..Len(s) : s[i] = c}

RECURSIVE Split(_, _)
\* str.split(sep)
Split(s, sep) ==
    IF PlacesOfChar(s, sep) = {} THEN <<s>>
    ELSE <<SubSeq(s, 1, FirstPlace(PlacesOfChar(s, sep)) - 1)>>
             \o Split(SubSeq(s, FirstPlace(PlacesOfChar(s, sep)) + 1, Len(s)), sep)

\* a string without its sign, the factor of the sign
Unsigned(s) == IF s # <<>> /\ Head(s) \in {"-", "+"} THEN Tail(s) ELSE s
SignOf(s) == IF s # <<>> /\ Head(s) = "-" THEN -1 ELSE 1

\* int(text): blanks around, a sign, decimal digits; None for ValueError
ParseInt(text) ==
    IF Unsigned(Strip(text)) # <<>> /\ AllDigits(Unsigned(Strip(text)))
    THEN Some(SignOf(Strip(text)) * DecimalValue(Unsigned(Strip(text))))
    ELSE None

\* h, m = hhmm.strip().split(":"); int(h) + int(m) / 60.0, in minutes;
\* 0.0 when the unpacking or an int() raises
hhmm_to_float(text) ==
    IF /\ Len(Split(Strip(text), ":")) = 2
       /\ ParseInt(Split(Strip(text), ":")[1]) # None
       /\ ParseInt(Split(Strip(text), ":")[2]) # None
    THEN 60 * ParseInt(Split(Strip(text), ":")[1])[1] + ParseInt(Split(Strip(text), ":")[2])[1]
    ELSE 0

\* time_re = ^\d{1,2}:\d{2}$
time_re_match(t) ==
    /\ Len(t) \in {4, 5}
    /\ t[Len(t) - 2] = ":"
    /\ AllDigits(SubSeq(t, 1, Len(t) - 3))
    /\ AllDigits(SubSeq(t, Len(t) - 1, Len(t)))

\* the digits before and after the point of an unsigned decimal literal
IntPart(s) == IF PlacesOfChar(s, ".") = {} THEN s ELSE Split(s, ".")[1]
FracPart(s) == IF PlacesOfChar(s, ".") = {} THEN <<>> ELSE Split(s, ".")[2]

\* a decimal literal float() accepts: digits with at most one point, at
\* least one digit (exponents and underscores are left out of the texts)
IsDecimal(s) ==
    /\ Cardinality(PlacesOfChar(s, ".")) <= 1
    /\ AllDigits(IntPart(s)) /\ AllDigits(FracPart(s))
    /\ Len(IntPart(s)) + Len(FracPart(s)) > 0

\* the fraction digits as hundredths (further digits cut off)
Hundredths(frac) ==
    IF Len(frac) = 0 THEN 0
    ELSE IF Len(frac) = 1 THEN 10 * DigitVal(frac[1])
    ELSE 10 * DigitVal(frac[1]) + DigitVal(frac[2])

\* float(text), in hundredths: blanks around, a sign, then "nan" in any
\* case or a decimal literal; None for ValueError
ParseFloat(text) ==
    IF Lower(Unsigned(Strip(text))) = <<"n", "a", "n">> THEN Some(NaN)
    ELSE IF IsDecimal(Unsigned(Strip(text)))
    THEN Some(SignOf(Strip(text))
              * (100 * DecimalValue(IntPart(Unsigned(Strip(text))))
                   + Hundredths(FracPart(Unsigned(Strip(text))))))
    ELSE None

\* the dashes that stand for no hours; the three dash characters are one here
IsDash(s) == s = <<"-">>

\* the body of the loop over the rows of a .docx table: the hours of column 4
\* are collected under the weekday of column 1 when float() takes them; the
\* text of the weekday cell is one value, "" when the cell is empty
CollectRow(daily_data, row) ==
    IF /\ Strip(row.hrs_txt) # <<>>
       /\ ~IsDash(Strip(row.hrs_txt))
       /\ row.day_txt # ""
       /\ ParseFloat(Strip(row.hrs_txt)) # None
    THEN Append(daily_data,
                [weekday |-> row.day_txt, hours |-> ParseFloat(Strip(row.hrs_txt))[1]])
    ELSE daily_data

RECURSIVE CollectHours(_, _)
\* the loop over the rows of the .docx tables
CollectHours(daily_data, rows) ==
    IF rows = <<>> THEN daily_data
    ELSE CollectHours(CollectRow(daily_data, Head(rows)), Tail(rows))

(***************************************************************************)
(* The session: the table of extracted records, the manual override, the   *)
(* history table                                                           *)
(* app - better.py and app - good.py have the normalize_name,              *)
(* load_rate_database, lookup_match and pay rule of app.py.  A timesheet   *)
(* file is [Name, daily_data, Date_Range].  A record is a row of df: a     *)
(* column the script does not have is None, a pay is in quarters as        *)
(* total_pay is.                                                           *)
(***************************************************************************)
\* the scripts that keep df for the session only, the scripts that store it
SessionScripts == {"better", "good"}
StoringScripts == {"app", "app_100"}

\* the script whose load_rate_database a script has
LoaderOf(v) == IF v = "app_100" THEN "app_100" ELSE "app"

No_match == <<"N", "o", " ", "m", "a", "t", "c", "h">>

\* matched_raw or "No match"
MatchedAs(matched_raw) ==
    IF matched_raw = None \/ matched_raw = Some(<<>>) THEN No_match ELSE matched_raw[1]

\* the integer nearest to n/d, the even one of two equally near
RoundDiv(n, d) ==
    IF 2 * (n % d) > d \/ (2 * (n % d) = d /\ (n \div d) % 2 = 1)
    THEN (n \div d) + 1
    ELSE n \div d

\* round(ratio, 2)
RoundRatio(ratio) == Rat(RoundDiv(100 * ratio.num, ratio.den), 100)

\* round(total_pay, 2): whole pence, kept in quarters of hundredth-hour pence
RoundPay(total_pay) == 400 * RoundDiv(total_pay, 400)

\* the dict extract_timesheet_data returns from the result p of calculate_pay:
\* app.py and app - better.py keep the three sums of hours and no pay,
\* app - good.py keeps the total of the hours and the rounded pay
RecordOf(v, file, p) ==
    [Name |-> file.Name,
     Matched_As |-> MatchedAs(p.matched_raw),
     Ratio |-> RoundRatio(p.ratio),
     Weekday_Hours |-> IF v = "good" THEN None ELSE Some(p.weekday_hours),
     Saturday_Hours |-> IF v = "good" THEN None ELSE Some(p.sat_hours),
     Sunday_Hours |-> IF v = "good" THEN None ELSE Some(p.sun_hours),
     Total_Hours |-> IF v = "good"
                     THEN Some(p.weekday_hours + p.sat_hours + p.sun_hours)
                     ELSE None,
     Rate |-> p.rate,
     Calculated_Pay |-> IF v = "good" THEN Some(RoundPay(p.total_pay)) ELSE None,
     Date_Range |-> file.Date_Range]

extract_timesheet_data(v, file, dir, threshold) ==
    The({RecordOf(v, file, p) :
            p \in {calculate_pay(file.Name, file.daily_data, dir, threshold)}})

\* the dict extract_from_docx returns from the result m of lookup_match and
\* the sums wd, sa, su
SummaryOf(file, m, hours) ==
    [Name |-> file.Name,
     Matched_As |-> m.matched_raw[1],
     Ratio |-> m.ratio,
     Weekday_Hours |-> Some(hours.weekday_hours),
     Saturday_Hours |-> Some(hours.sat_hours),
     Sunday_Hours |-> Some(hours.sun_hours),
     Total_Hours |-> None,
     Rate |-> m.rate,
     Calculated_Pay |-> None,
     Date_Range |-> file.Date_Range]

extract_from_docx(file, dir) ==
    The({SummaryOf(file, m, TallyHours(NoHours, file.daily_data)) :
            m \in {lookup_match_100(file.Name, dir)}})

\* all_rows, summaries: the records of the uploaded files, in order
all_rows(v, files, dir, threshold) ==
    [i \in 1..Len(files) |->
        IF v = "app_100" THEN extract_from_docx(files[i], dir)
        ELSE extract_timesheet_data(v, files[i], dir, threshold)]

\* if "Calculated Pay (£)" not in df.columns: the column is filled with the
\* total_pay of calculate_pay(row["Name"], [])
FillCalculatedPay(rows, dir, threshold) ==
    [i \in 1..Len(rows) |->
        IF rows[i].Calculated_Pay # None THEN rows[i]
        ELSE [rows[i] EXCEPT !.Calculated_Pay =
                  Some(calculate_pay(rows[i].Name, <<>>, dir, threshold).total_pay)]]

\* the table a run of the script ends with when no button was pressed:
\* app - good.py has the column from the extraction
FinalTable(v, rows, dir, threshold) ==
    IF v \in {"good", "app_100"} THEN rows ELSE FillCalculatedPay(rows, dir, threshold)

\* unmatched = debug_df.loc[debug_df["Matched As"] == "No match", "Name"].tolist()
unmatched(rows) == {rows[i].Name : i \in {j \in 1..Len(rows) : rows[j].Matched_As = No_match}}

\* recalc_total_pay(row) with rate_override = correct_rate
recalc_total_pay(row, correct_rate) ==
    TotalPay(PayRegular(row.Weekday_Hours[1], correct_rate),
             PayOvertime(row.Weekday_Hours[1], correct_rate),
             PaySat(row.Saturday_Hours[1], correct_rate),
             PaySun(row.Sunday_Hours[1], correct_rate))

\* Apply Override of app - better.py on a row of the name: the three
\* assignments through df.loc
OverrideRowBetter(row, chosen_raw, correct_rate) ==
    [row EXCEPT !.Matched_As = chosen_raw,
                !.Rate = correct_rate,
                !.Calculated_Pay = Some(recalc_total_pay(row, correct_rate))]

\* Apply Override of app - good.py on a row of the name: the two assignments
\* made before calculate_pay(...)[[2,0]] indexes a tuple with a list
OverrideRowGood(row, chosen_raw, correct_rate) ==
    [row EXCEPT !.Matched_As = chosen_raw, !.Rate = correct_rate]

\* df after Apply Override; in app - better.py the assignment creates the
\* column Calculated Pay, with NaN in the rows of the other names
ApplyOverrideTo(v, rows, name, chosen_raw, correct_rate) ==
    [i \in 1..Len(rows) |->
        IF rows[i].Name = name
        THEN IF v = "better" THEN OverrideRowBetter(rows[i], chosen_raw, correct_rate)
             ELSE OverrideRowGood(rows[i], chosen_raw, correct_rate)
        ELSE IF v = "better" THEN [rows[i] EXCEPT !.Calculated_Pay = Some(NaN)]
             ELSE rows[i]]

\* the exception the run of Apply Override ends with
OverrideRaises(v) == IF v = "good" THEN "TypeError" ELSE "none"

\* the columns of a record that INSERT INTO timesheet_entries stores
EntryOf(row) ==
    [name |-> row.Name, matched_as |-> row.Matched_As, ratio |-> row.Ratio,
     weekday_hours |-> row.Weekday_Hours[1], saturday_hours |-> row.Saturday_Hours[1],
     sunday_hours |-> row.Sunday_Hours[1], rate |-> row.Rate,
     date_range |-> row.Date_Range]

EntriesOf(rows) == [i \in 1..Len(rows) |-> EntryOf(rows[i])]

\* app.py: the rows the validation names
problem_rows(rows) ==
    {i \in 1..Len(rows) :
        \/ rows[i].Weekday_Hours[1] < 0
        \/ rows[i].Saturday_Hours[1] < 0
        \/ rows[i].Sunday_Hours[1] < 0
        \/ rows[i].Weekday_Hours[1] > 16800
        \/ rows[i].Saturday_Hours[1] > 2400
        \/ rows[i].Sunday_Hours[1] > 2400}

InsertAll_valid_rows(entries, rows) ==
    entries \o EntriesOf(SelectSeq(rows, LAMBDA row : problem_rows(<<row>>) = {}))

\* app.py: if not problem_rows, every row of df is inserted
InsertAll(entries, rows) ==
    IF problem_rows(rows) = {} THEN entries \o EntriesOf(rows) ELSE entries

\* SELECT COUNT(*) FROM timesheet_entries WHERE name=? AND date_range=?
CountOf(entries, name, date_range) ==
    Cardinality({i \in 1..Len(entries) :
                    entries[i].name = name /\ entries[i].date_range = date_range})

\* app_100%.py: the records of the batch with no such row in the table
NewRecords(entries, summaries) ==
    SelectSeq(summaries, LAMBDA r : CountOf(entries, r.Name, r.Date_Range) = 0)

\* app_100%.py: if new, each record of new is inserted
InsertNew(entries, summaries) == entries \o EntriesOf(NewRecords(entries, summaries))

\* the table after the Upload & Review tab ran on the records
Persist(v, entries, rows) ==
    IF v = "app" THEN InsertAll(entries, rows) ELSE InsertNew(entries, rows)

\* SELECT DISTINCT name,matched_as,ratio FROM timesheet_entries
dfm(entries) ==
    {<<entries[i].name, entries[i].matched_as, entries[i].ratio>> : i \in 1..Len(entries)}

\* the code points of the characters of the names of a session
CodePoint(c) ==
    CASE c = " " -> 32
      [] c = "." -> 46
      [] c = "A" -> 65
      [] c = "a" -> 97
      [] c = "b" -> 98
      [] OTHER -> 120

RECURSIVE StrLess(_, _)
\* a < b of two str
StrLess(a, b) ==
    IF b = <<>> THEN FALSE
    ELSE IF a = <<>> THEN TRUE
    ELSE IF CodePoint(Head(a)) # CodePoint(Head(b))
         THEN CodePoint(Head(a)) < CodePoint(Head(b))
         ELSE StrLess(Tail(a), Tail(b))

\* the order of two rows of the outer merge that have the same Timesheet
\* Name: by Matched Rate Name, then by Confidence
MergedBefore(x, y) ==
    \/ StrLess(x[2], y[2])
    \/ x[2] = y[2] /\ RatGt(y[3], x[3])

\* the rows of edited.merge(dfm, indicator=True, how="outer") that are not in
\* both, the keys of the merge in lexicographic order: the edited row and the
\* row it had been
diffs(old_row, edited_row) ==
    IF edited_row = old_row THEN <<>>
    ELSE IF MergedBefore(edited_row, old_row) THEN <<edited_row, old_row>>
    ELSE <<old_row, edited_row>>

\* UPDATE timesheet_entries SET matched_as=?,ratio=? WHERE name=?
UpdateMatch(entries, r) ==
    [i \in 1..Len(entries) |->
        IF entries[i].name = r[1]
        THEN [entries[i] EXCEPT !.matched_as = r[2], !.ratio = r[3]]
        ELSE entries[i]]

RECURSIVE SaveDiffs(_, _)
\* for _,r in diffs.iterrows(): the UPDATE of each row, in order
SaveDiffs(entries, rows) ==
    IF rows = <<>> THEN entries
    ELSE SaveDiffs(UpdateMatch(entries, Head(rows)), Tail(rows))

RECURSIVE SumOfPay(_)
\* the sum of the column Calculated Pay of rows
SumOfPay(rows) ==
    IF rows = <<>> THEN 0 ELSE Head(rows).Calculated_Pay[1] + SumOfPay(Tail(rows))

\* df.groupby("Matched As")[["Calculated Pay (£)", ...]].sum(): the pay of
\* the Weekly Summary for each matched name
summary_df(rows) ==
    [name \in {rows[i].Matched_As : i \in 1..Len(rows)} |->
        SumOfPay(SelectSeq(rows, LAMBDA row : row.Matched_As = name))]

(***************************************************************************)
(* The exported workbook                                                   *)
(* A sheet is the sequence of its rows; the row of a record holds the      *)
(* hours and the rate in G to J and formulas in K to O.  A formula is kept *)
(* as its parts: the cells it reads, its function and its factor in        *)
(* quarters; its value is in quarters of hundredth-hour pence.             *)
(***************************************************************************)
\* =MIN(G,50)*J
reg_formula(excel_row) ==
    [fn |-> "MIN", hours |-> <<"G", excel_row>>, limit |-> 5000,
     rate |-> <<"J", excel_row>>, quarters |-> 4]

ot_formula_at_rate(excel_row) ==
    [fn |-> "MAX", hours |-> <<"G", excel_row>>, limit |-> 5000,
     rate |-> <<"J", excel_row>>, quarters |-> 4]

\* =MAX(G-50,0)*J*1.5
ot_formula(excel_row) ==
    [fn |-> "MAX", hours |-> <<"G", excel_row>>, limit |-> 5000,
     rate |-> <<"J", excel_row>>, quarters |-> 6]

\* =H*J*1.5
sat_formula(excel_row) ==
    [fn |-> "REF", hours |-> <<"H", excel_row>>, limit |-> 0,
     rate |-> <<"J", excel_row>>, quarters |-> 6]

\* =I*J*1.75
sun_formula(excel_row) ==
    [fn |-> "REF", hours |-> <<"I", excel_row>>, limit |-> 0,
     rate |-> <<"J", excel_row>>, quarters |-> 7]

\* =K+L+M+N
tot_formula(excel_row) ==
    [fn |-> "SUM",
     cells |-> << <<"K", excel_row>>, <<"L", excel_row>>, <<"M", excel_row>>,
                  <<"N", excel_row>> >>]

\* the list ws.append gets for the row idx of df: excel_row = idx + 2
ExcelRow(idx, row) ==
    [G |-> row.Weekday_Hours[1], H |-> row.Saturday_Hours[1], I |-> row.Sunday_Hours[1],
     J |-> row.Rate,
     K |-> reg_formula(idx + 2), L |-> ot_formula(idx + 2), M |-> sat_formula(idx + 2),
     N |-> sun_formula(idx + 2), O |-> tot_formula(idx + 2)]

\* the sheet Timesheets: the header row, then the row of each record of df
Workbook(rows) == <<"headers">> \o [i \in 1..Len(rows) |-> ExcelRow(i - 1, rows[i])]

\* the sheet a script builds: app.py and app - better.py write formulas
ExportOf(v, rows) == IF v \in {"app", "better"} THEN Workbook(rows) ELSE <<>>

\* the content of a cell of the sheet
CellOf(sheet, ref) == sheet[ref[2]][ref[1]]

\* the hours a formula of a product takes from its cell
FormulaHours(fn, h, limit) ==
    IF fn = "MIN" THEN Smaller(h, limit)
    ELSE IF fn = "MAX" THEN Max(h - limit, 0)
    ELSE h

\* the value a spreadsheet gives a formula of a product
ProductValue(sheet, f) ==
    FormulaHours(f.fn, CellOf(sheet, f.hours), f.limit) * CellOf(sheet, f.rate) * f.quarters

\* the value a spreadsheet gives a formula of the sheet
FormulaValue(sheet, f) ==
    IF f.fn = "SUM"
    THEN ProductValue(sheet, CellOf(sheet, f.cells[1]))
             + ProductValue(sheet, CellOf(sheet, f.cells[2]))
             + ProductValue(sheet, CellOf(sheet, f.cells[3]))
             + ProductValue(sheet, CellOf(sheet, f.cells[4]))
    ELSE ProductValue(sheet, f)

(***************************************************************************)
(* Inputs                                                                  *)
(***************************************************************************)
\* all strings over an alphabet up to a length
Strings(alphabet, n) == UNION {[1..k -> alphabet] : k \in 0..n}

\* the characters of the names looked up
LookupChars == {"a", "b", "A", ".", " "}

Str(s) == [nan |-> FALSE, str |-> s]
Num(r) == [kind |-> "num", val |-> r]

\* an empty cell, a rate cell that holds text
NoName == [nan |-> TRUE, str |-> <<>>]
NoRate == [kind |-> "nan", val |-> 0]
TextRate == [kind |-> "text", val |-> 0]

\* the rows a rate sheet is made of: "Ab" and "a.b" share a canonical name,
\* "." has an empty one
RowPool ==
    { [Name |-> Str(<<"A", "b">>), PayRate |-> Num(2000)],
      [Name |-> Str(<<"a", ".", "b">>), PayRate |-> Num(1000)],
      [Name |-> Str(<<"b", "a">>), PayRate |-> Num(1000)],
      [Name |-> Str(<<"b", " ", "a">>), PayRate |-> Num(2500)],
      [Name |-> Str(<<".">>), PayRate |-> Num(2000)] }

Sheets == UNION {[1..k -> RowPool] : k \in 0..MaxRows}

Days == {"Monday", "Saturday", "Sunday"}

\* hours of one day, in hundredths
HoursPool == {1, 400, 800, 4500, 5000, 6000}

DailyEntries == [weekday : Days, hours : HoursPool]

DailyData == UNION {[1..k -> DailyEntries] : k \in 0..MaxEntries}

\* the rate sheet and the names of the pay runs
PaySheet ==
    << [Name |-> Str(<<"A", "b">>), PayRate |-> Num(2000)],
       [Name |-> Str(<<"b", "a">>), PayRate |-> Num(1000)] >>

PayNames == { <<"A", "b">>, <<"b", "a">>, <<".">> }

\* one worker at 20.00, looked up in capitals
John_Smith == <<"J", "o", "h", "n", " ", "S", "m", "i", "t", "h">>
JOHN_SMITH == <<"J", "O", "H", "N", " ", "S", "M", "I", "T", "H">>
SmithSheet == << [Name |-> Str(John_Smith), PayRate |-> Num(2000)] >>

\* the rate sheets and names of the pay runs
PayCases ==
    {[sheet |-> PaySheet, name |-> n] : n \in PayNames}
        \cup {[sheet |-> SmithSheet, name |-> JOHN_SMITH]}

(***************************************************************************)
(* State: groups of variables, the directory                               *)
(***************************************************************************)
normVars == <<given_name, given_norm, given_norm_again, alt_name, alt_norm>>

dirVars == <<rate_sources, rate_rows, custom_rates, normalized_rates, normalized_keys, norm_to_raw>>

callVars == <<extracted_name, match, daily, pay>>

\* the state of the extraction and of the session
sessionVars == <<hhmm, hhmm_hours, docx_rows>>

\* the state of a run of a script on uploaded timesheets
tableVars == <<uploaded_files, df, timesheet_entries, override_applied, raised, ws,
               new_thresh, rate_file>>

vars == <<variant, last_call, normVars, dirVars, SIMILARITY_THRESHOLD, callVars, sessionVars,
         tableVars>>

\* the directory the functions read
Directory ==
    [custom_rates |-> custom_rates, normalized_rates |-> normalized_rates,
     norm_to_raw |-> norm_to_raw, normalized_keys |-> normalized_keys]

\* the module-level load: the four globals hold what load_rate_database returned
Loaded(v, rows) ==
    LET dir == load_rate_database(v, rows)
    IN  /\ rate_sources = <<rows>>
        /\ rate_rows = rows
        /\ custom_rates = dir.custom_rates
        /\ normalized_rates = dir.normalized_rates
        /\ normalized_keys = dir.normalized_keys
        /\ norm_to_raw = dir.norm_to_raw

\* the globals after a load that ran the body of load_rate_database
Reloaded(dir, rows) ==
    /\ rate_sources' = <<rows>>
    /\ rate_rows' = rows
    /\ custom_rates' = dir.custom_rates
    /\ normalized_rates' = dir.normalized_rates
    /\ normalized_keys' = dir.normalized_keys
    /\ norm_to_raw' = dir.norm_to_raw

NoNormCall ==
    /\ given_name = <<>>
    /\ given_norm = <<>>
    /\ given_norm_again = <<>>
    /\ alt_name = <<>>
    /\ alt_norm = <<>>

NoMatchCall == match = EmptyNameResult

NoSession ==
    /\ hhmm = <<>>
    /\ hhmm_hours = 0
    /\ docx_rows = <<>>

NoTables ==
    /\ uploaded_files = <<>>
    /\ df = <<>>
    /\ timesheet_entries = <<>>
    /\ override_applied = None
    /\ raised = "none"
    /\ ws = <<>>
    /\ new_thresh = SIMILARITY_THRESHOLD_0
    /\ rate_file = <<>>

NoPayCall ==
    /\ daily = <<>>
    /\ pay = calculate_pay(<<>>, <<>>, EmptyDir, SIMILARITY_THRESHOLD_0)

(***************************************************************************)
(* normalize_name on its own                                               *)
(***************************************************************************)
InitNorm ==
    /\ variant \in Variants
    /\ last_call = "none"
    /\ given_name \in Strings(Chars, MaxNameLen)
    /\ given_norm = <<>>
    /\ given_norm_again = <<>>
    /\ alt_name = given_name
    /\ alt_norm = <<>>
    /\ Loaded(variant, <<>>)
    /\ SIMILARITY_THRESHOLD = SIMILARITY_THRESHOLD_0
    /\ extracted_name = <<>>
    /\ NoMatchCall
    /\ NoPayCall
    /\ NoSession
    /\ NoTables

\* the string is normalized, and the result is normalized again
NormalizeName ==
    /\ last_call = "none"
    /\ last_call' = "normalize_name"
    /\ given_norm' = normalize(variant, given_name)
    /\ given_norm_again' = normalize(variant, given_norm')
    /\ alt_norm' = given_norm'
    /\ UNCHANGED <<tableVars, variant, given_name, alt_name, dirVars, SIMILARITY_THRESHOLD, callVars, sessionVars>>

\* the characters that are one letter in another case or with an accent
SameLetter == {"a", "A", "a_acute", "A_acute"}

\* what may come and go between two names that differ only in accents or
\* punctuation: a combining mark, a punctuation character
Marks == {"acute", "."}

\* another name is normalized
NormalizeAlt(s) ==
    /\ last_call = "normalize_name"
    /\ alt_name' = s
    /\ alt_norm' = normalize(variant, s)
    /\ UNCHANGED <<tableVars, variant, last_call, given_name, given_norm, given_norm_again, dirVars,
                   SIMILARITY_THRESHOLD, callVars, sessionVars>>

\* ... that differs from the last one in the case or accent of one letter
Recase ==
    \E i \in 1..Len(alt_name) : \E c \in SameLetter :
        /\ alt_name[i] \in SameLetter
        /\ c # alt_name[i]
        /\ NormalizeAlt([alt_name EXCEPT ![i] = c])

\* ... that has one more combining mark or punctuation character
AddMark ==
    \E i \in 0..Len(alt_name) : \E c \in Marks :
        /\ Len(alt_name) < MaxNameLen
        /\ NormalizeAlt(SubSeq(alt_name, 1, i) \o <<c>>
                        \o SubSeq(alt_name, i + 1, Len(alt_name)))

\* ... that has one combining mark or punctuation character less
DropMark ==
    \E i \in 1..Len(alt_name) :
        /\ alt_name[i] \in Marks
        /\ NormalizeAlt(SubSeq(alt_name, 1, i - 1)
                        \o SubSeq(alt_name, i + 1, Len(alt_name)))

NextNorm == NormalizeName \/ Recase \/ AddMark \/ DropMark

SpecNorm == InitNorm /\ [][NextNorm]_vars

(***************************************************************************)
(* lookup_match on its own                                                 *)
(***************************************************************************)
\* the values the global threshold takes: app_100 has none
ThresholdsOf(v) == IF v = "app" THEN SliderValues ELSE {SIMILARITY_THRESHOLD_0}

InitMatch ==
    /\ variant \in Variants
    /\ last_call = "none"
    /\ NoNormCall
    /\ \E rows \in Sheets : Loaded(variant, rows)
    /\ SIMILARITY_THRESHOLD \in ThresholdsOf(variant)
    /\ extracted_name \in Strings(LookupChars, MaxLookupLen)
    /\ NoMatchCall
    /\ NoPayCall
    /\ NoSession
    /\ NoTables

LookupMatch ==
    /\ last_call = "none"
    /\ last_call' = "lookup_match"
    /\ match' = lookup_match(variant, extracted_name, Directory, SIMILARITY_THRESHOLD)
    /\ UNCHANGED <<tableVars, variant, normVars, dirVars, SIMILARITY_THRESHOLD, extracted_name, daily, pay, sessionVars>>

NextMatch == LookupMatch

SpecMatch == InitMatch /\ [][NextMatch]_vars

(***************************************************************************)
(* calculate_pay on its own                                                *)
(***************************************************************************)
InitPay ==
    /\ variant = "app"
    /\ last_call = "none"
    /\ NoNormCall
    /\ \E c \in PayCases :
          /\ Loaded(variant, c.sheet)
          /\ extracted_name = c.name
    /\ SIMILARITY_THRESHOLD = SIMILARITY_THRESHOLD_0
    /\ NoMatchCall
    /\ daily \in DailyData
    /\ pay = calculate_pay(<<>>, <<>>, EmptyDir, SIMILARITY_THRESHOLD_0)
    /\ NoSession
    /\ NoTables

CalculatePay ==
    /\ last_call = "none"
    /\ last_call' = "calculate_pay"
    /\ pay' = calculate_pay(extracted_name, daily, Directory, SIMILARITY_THRESHOLD)
    /\ UNCHANGED <<tableVars, variant, normVars, dirVars, SIMILARITY_THRESHOLD, extracted_name, match, daily, sessionVars>>

NextPay == CalculatePay

SpecPay == InitPay /\ [][NextPay]_vars

(***************************************************************************)
(* The load of the rate tables on its own                                  *)
(***************************************************************************)
\* rows of rate tables: good ones, two of them with the same canonical name,
\* a name of blanks only, an empty name cell, a text rate, an empty rate cell
LoadRowPool ==
    { [Name |-> Str(<<"A", "b">>), PayRate |-> Num(2000)],
      [Name |-> Str(<<"a", ".", "b">>), PayRate |-> Num(1000)],
      [Name |-> Str(<<"b", "a">>), PayRate |-> Num(1000)],
      [Name |-> Str(<<" ">>), PayRate |-> Num(2500)],
      [Name |-> NoName, PayRate |-> Num(2000)],
      [Name |-> Str(<<"A", "b">>), PayRate |-> TextRate],
      [Name |-> Str(<<"b", "a">>), PayRate |-> NoRate] }

LoadRowLists == UNION {[1..k -> LoadRowPool] : k \in 0..MaxLoadRows}

\* two tables in load order: the rows of a list, cut in two at some place
CutsOf(rows) ==
    {<<SubSeq(rows, 1, k), SubSeq(rows, k + 1, Len(rows))>> : k \in 0..Len(rows)}

TablePairs == UNION {CutsOf(rows) : rows \in LoadRowLists}

RECURSIVE Flatten(_)
\* the rows of the tables, in load order
Flatten(tables) ==
    IF tables = <<>> THEN <<>> ELSE Head(tables) \o Flatten(Tail(tables))

InitLoad ==
    /\ variant \in Variants
    /\ last_call = "none"
    /\ NoNormCall
    /\ rate_sources \in TablePairs
    /\ rate_rows = <<>>
    /\ custom_rates = <<>>
    /\ normalized_rates = <<>>
    /\ normalized_keys = <<>>
    /\ norm_to_raw = <<>>
    /\ SIMILARITY_THRESHOLD = SIMILARITY_THRESHOLD_0
    /\ extracted_name = <<>>
    /\ NoMatchCall
    /\ NoPayCall
    /\ NoSession
    /\ NoTables

\* the script loads the rate tables
LoadRateDatabase ==
    /\ last_call = "none"
    /\ last_call' = "load_rate_database"
    /\ rate_rows' = Flatten(rate_sources)
    /\ custom_rates' = LoadSources(variant, rate_sources).custom_rates
    /\ normalized_rates' = LoadSources(variant, rate_sources).normalized_rates
    /\ normalized_keys' = LoadSources(variant, rate_sources).normalized_keys
    /\ norm_to_raw' = LoadSources(variant, rate_sources).norm_to_raw
    /\ UNCHANGED <<tableVars, variant, normVars, rate_sources, SIMILARITY_THRESHOLD, callVars, sessionVars>>

NextLoad == LoadRateDatabase

SpecLoad == InitLoad /\ [][NextLoad]_vars

(***************************************************************************)
(* Reading hours: hhmm_to_float on a token, the hours column of a .docx    *)
(***************************************************************************)
HhmmChars == {"1", "5", ":", "-", " ", "x"}

\* the texts of an hours cell: 7.5, 8, empty, a dash, a letter, nan
HoursTexts ==
    { <<"7", ".", "5">>, <<"8">>, <<>>, <<"-">>, <<"x">>, <<"n", "a", "n">> }

DocxRows == [day_txt : {"Monday", "Saturday", ""}, hrs_txt : HoursTexts]

DocxRowLists == UNION {[1..k -> DocxRows] : k \in 0..MaxDocxRows}

InitHours ==
    /\ variant = "app"
    /\ last_call = "none"
    /\ NoNormCall
    /\ Loaded(variant, <<>>)
    /\ SIMILARITY_THRESHOLD = SIMILARITY_THRESHOLD_0
    /\ extracted_name = <<>>
    /\ NoMatchCall
    /\ NoPayCall
    /\ NoTables
    /\ hhmm_hours = 0
    /\ \/ hhmm \in Strings(HhmmChars, MaxTokenLen) /\ docx_rows = <<>>
       \/ hhmm = <<>> /\ docx_rows \in DocxRowLists

\* a token is converted
HhmmToFloat ==
    /\ last_call = "none"
    /\ last_call' = "hhmm_to_float"
    /\ hhmm_hours' = hhmm_to_float(hhmm)
    /\ UNCHANGED <<tableVars, variant, normVars, dirVars, SIMILARITY_THRESHOLD, callVars, hhmm, docx_rows>>

\* the hours of the rows of a .docx table are collected
CollectDocxHours ==
    /\ last_call = "none"
    /\ last_call' = "extract_timesheet_data"
    /\ daily' = CollectHours(<<>>, docx_rows)
    /\ UNCHANGED <<tableVars, variant, normVars, dirVars, SIMILARITY_THRESHOLD, extracted_name, match,
                   pay, sessionVars>>

NextHours == HhmmToFloat \/ CollectDocxHours

SpecHours == InitHours /\ [][NextHours]_vars

(***************************************************************************)
(* The runs of a script on uploaded timesheets                             *)
(***************************************************************************)
\* the rate sheet of the sessions
SessionSheet ==
    << [Name |-> Str(<<"A", "b">>), PayRate |-> Num(2000)],
       [Name |-> Str(<<"b", "a">>), PayRate |-> Num(1000)] >>

LongWeek ==
    << [weekday |-> "Monday", hours |-> 6000], [weekday |-> "Saturday", hours |-> 800],
       [weekday |-> "Sunday", hours |-> 400] >>

\* timesheet files: a name of the sheet in two weeks, a name near one of the
\* sheet, a name far from all in two files of one week, one of them with
\* thirty hours on a Saturday; 170 hours on a Monday; an hour less than none;
\* seven hours and a quarter on a Sunday
SessionFiles ==
    { [Name |-> <<"A", "b">>, daily_data |-> LongWeek, Date_Range |-> "01.01.2024-07.01.2024"],
      [Name |-> <<"A", "b">>, daily_data |-> LongWeek, Date_Range |-> "08.01.2024-14.01.2024"],
      [Name |-> <<"A", "b", "b">>, daily_data |-> << [weekday |-> "Monday", hours |-> 800] >>,
       Date_Range |-> "01.01.2024-07.01.2024"],
      [Name |-> <<"b", "b", "b">>, daily_data |-> LongWeek,
       Date_Range |-> "01.01.2024-07.01.2024"],
      [Name |-> <<"b", "b", "b">>, daily_data |-> << [weekday |-> "Saturday", hours |-> 3000] >>,
       Date_Range |-> "01.01.2024-07.01.2024"],
      [Name |-> <<"A", "b", "b">>, daily_data |-> << [weekday |-> "Monday", hours |-> 17000] >>,
       Date_Range |-> "08.01.2024-14.01.2024"],
      [Name |-> <<"b", "a">>, daily_data |-> << [weekday |-> "Sunday", hours |-> -100] >>,
       Date_Range |-> "08.01.2024-14.01.2024"],
      [Name |-> <<"b", "a">>, daily_data |-> << [weekday |-> "Sunday", hours |-> 725] >>,
       Date_Range |-> "01.01.2024-07.01.2024"] }

\* the rate sheet after an edit: a rate raised, a name replaced by another
EditedSheet ==
    << [Name |-> Str(<<"A", "b">>), PayRate |-> Num(2500)],
       [Name |-> Str(<<"A", "b", "b">>), PayRate |-> Num(1500)] >>

RateSheets == {SessionSheet, EditedSheet}

\* the positions the slider is moved between
SliderPositions == {Rat(60, 100), Rat(90, 100)}

FileLists == UNION {[1..k -> SessionFiles] : k \in 0..MaxFiles}

\* the keys of custom_rates
RawNames == {custom_rates[i][1] : i \in 1..Len(custom_rates)}

InitSession ==
    /\ variant \in SessionScripts \cup StoringScripts
    /\ last_call = "none"
    /\ NoNormCall
    /\ Loaded(LoaderOf(variant), SessionSheet)
    /\ SIMILARITY_THRESHOLD = SIMILARITY_THRESHOLD_0
    /\ extracted_name = <<>>
    /\ NoMatchCall
    /\ NoPayCall
    /\ NoSession
    /\ uploaded_files \in FileLists
    /\ df = <<>>
    /\ timesheet_entries = <<>>
    /\ override_applied = None
    /\ raised = "none"
    /\ ws = <<>>
    /\ new_thresh = SIMILARITY_THRESHOLD_0
    /\ rate_file = SessionSheet

\* app - better.py, app - good.py: a run of the script with no button pressed
Rerun ==
    /\ variant \in SessionScripts
    /\ uploaded_files # <<>>
    /\ last_call' = "rerun"
    /\ df' = FinalTable(variant,
                       all_rows(variant, uploaded_files, Directory, SIMILARITY_THRESHOLD_0),
                       Directory, SIMILARITY_THRESHOLD_0)
    /\ override_applied' = None
    /\ raised' = "none"
    /\ ws' = ExportOf(variant, df')
    /\ UNCHANGED <<variant, normVars, dirVars, SIMILARITY_THRESHOLD, callVars, sessionVars,
                   uploaded_files, timesheet_entries, new_thresh, rate_file>>

\* app - better.py, app - good.py: the run of the script after Apply Override
\* was pressed for an unmatched name and a key of custom_rates
ApplyOverride ==
    /\ variant \in SessionScripts
    /\ last_call # "none"
    /\ \E rows \in {all_rows(variant, uploaded_files, Directory, SIMILARITY_THRESHOLD_0)} :
       \E name \in unmatched(rows), chosen \in RawNames :
          /\ df' = ApplyOverrideTo(variant, rows, name, chosen, DictGet(custom_rates, chosen))
          /\ override_applied' = Some([name |-> name, chosen |-> chosen, conf |-> None])
    /\ last_call' = "apply_override"
    /\ raised' = OverrideRaises(variant)
    /\ ws' = ExportOf(variant, df')
    /\ UNCHANGED <<variant, normVars, dirVars, SIMILARITY_THRESHOLD, callVars, sessionVars,
                   uploaded_files, timesheet_entries, new_thresh, rate_file>>

\* app.py, app_100%.py: a run of the script, the Upload & Review tab stores
\* the records of the uploaded files; in app.py the Settings tab then assigns
\* the position of the slider to the global
UploadAndReview ==
    /\ variant \in StoringScripts
    /\ uploaded_files # <<>>
    /\ Len(timesheet_entries) + Len(uploaded_files) <= MaxStored
    /\ last_call' = "upload_and_review"
    /\ \E rows \in {all_rows(variant, uploaded_files, Directory, SIMILARITY_THRESHOLD_0)} :
          /\ df' = FinalTable(variant, rows, Directory, SIMILARITY_THRESHOLD_0)
          /\ timesheet_entries' = Persist(variant, timesheet_entries, rows)
    /\ override_applied' = None
    /\ raised' = "none"
    /\ ws' = ExportOf(variant, df')
    /\ SIMILARITY_THRESHOLD' = SettingsTab(variant, new_thresh)
    /\ UNCHANGED <<variant, normVars, dirVars, callVars, sessionVars,
                   uploaded_files, new_thresh, rate_file>>

\* the interactions of app.py that start a run of the script besides an
\* upload: the slider of the Settings tab is moved (765-771), Reload Pay
\* Rates of the sidebar is pressed (115-117), Reload pay details.xlsx of the
\* Settings tab is pressed (773-776)
Clicks == {"move_slider", "reload_pay_rates", "reload_pay_details"}

\* the cache entry the load of the last run of the interaction finds: the
\* two buttons clear the cache and run the script again
EntryAfter(click, dir) == IF click = "move_slider" THEN Some(dir) ELSE None

\* the history table when the last run of the interaction starts: the
\* button of the Settings tab is reached after the Upload & Review tab of
\* the run of the click stored the records matched with the cached directory
StoredBefore(click, v, entries, shown) ==
    IF click = "reload_pay_details" THEN Persist(v, entries, shown) ELSE entries

\* the number of runs of the Upload & Review tab the interaction starts
RunsOf(click) == IF click = "reload_pay_details" THEN 2 ELSE 1

\* app.py: the runs of the script an interaction starts: the head of the
\* script assigns 0.60 to the global, the load reads the cache, the
\* Upload & Review tab extracts and stores, the Settings tab assigns the
\* position of the slider to the global
Interact(click) ==
    /\ variant = "app"
    /\ Len(timesheet_entries) + RunsOf(click) * Len(uploaded_files) <= MaxStored
    /\ new_thresh' \in IF click = "move_slider" THEN SliderPositions \ {new_thresh}
                                                ELSE {new_thresh}
    /\ last_call' = click
    /\ \E cached \in {cache_data(Some(Directory), variant, rate_file)} :
       \E dir \in {cache_data(EntryAfter(click, cached), variant, rate_file)} :
          /\ Reloaded(dir, IF click = "move_slider" THEN rate_rows ELSE rate_file)
          /\ \E shown \in {all_rows(variant, uploaded_files, cached, SIMILARITY_THRESHOLD_0)} :
             \E stored \in {StoredBefore(click, variant, timesheet_entries, shown)},
                rows \in {IF dir = cached THEN shown
                          ELSE all_rows(variant, uploaded_files, dir, SIMILARITY_THRESHOLD_0)} :
                /\ df' = FinalTable(variant, rows, dir, SIMILARITY_THRESHOLD_0)
                /\ timesheet_entries' = Persist(variant, stored, rows)
    /\ override_applied' = None
    /\ raised' = "none"
    /\ ws' = IF uploaded_files = <<>> THEN <<>> ELSE ExportOf(variant, df')
    /\ SIMILARITY_THRESHOLD' = SettingsTab(variant, new_thresh')
    /\ UNCHANGED <<variant, normVars, callVars, sessionVars, uploaded_files, rate_file>>

\* the rate sheet is replaced on disk, no script runs
EditRateSheet ==
    /\ variant = "app"
    /\ rate_file' \in RateSheets \ {rate_file}
    /\ last_call' = "edit_rate_sheet"
    /\ UNCHANGED <<variant, normVars, dirVars, SIMILARITY_THRESHOLD, callVars,
                   sessionVars, uploaded_files, df, timesheet_entries, override_applied,
                   raised, ws, new_thresh>>

\* app_100%.py: the run of the script after Save match edits was pressed with
\* one row of the editor changed: the Upload & Review tab, then the Matches tab
SaveMatchEdits ==
    /\ variant = "app_100"
    /\ last_call # "none"
    /\ timesheet_entries # <<>>
    /\ \E rows \in {all_rows(variant, uploaded_files, Directory, SIMILARITY_THRESHOLD_0)} :
       \E old_row \in dfm(timesheet_entries), new_match \in RawNames, new_conf \in {One, Zero} :
          /\ df' = rows
          /\ timesheet_entries' =
                 SaveDiffs(Persist(variant, timesheet_entries, rows),
                           diffs(old_row, <<old_row[1], new_match, new_conf>>))
          /\ override_applied' =
                 Some([name |-> old_row[1], chosen |-> new_match, conf |-> Some(new_conf)])
    /\ last_call' = "save_match_edits"
    /\ raised' = "none"
    /\ ws' = ExportOf(variant, df')
    /\ UNCHANGED <<variant, normVars, dirVars, SIMILARITY_THRESHOLD, callVars, sessionVars,
                   uploaded_files, new_thresh, rate_file>>

NextSession ==
    \/ Rerun
    \/ ApplyOverride
    \/ UploadAndReview
    \/ SaveMatchEdits
    \/ \E click \in Clicks : Interact(click)
    \/ EditRateSheet

SpecSession == InitSession /\ [][NextSession]_vars

(***************************************************************************)
(* The upload loop of app.py on .docx and .pdf files                       *)
(***************************************************************************)
\* the upper-case letter of a lower-case one
UpperChar(c) ==
    IF \E u \in UpperLetters : LowerOf[u] = c
    THEN CHOOSE u \in UpperLetters : LowerOf[u] = c
    ELSE IF c = "a_acute" THEN "A_acute" ELSE c

IsCased(c) == c \in LowerLetters \cup UpperLetters \cup {"a_acute", "A_acute"}

\* str.title(): a cased character is upper case after an uncased one or at
\* the start, lower case after a cased one
Title(s) ==
    [i \in 1..Len(s) |->
        IF i = 1 \/ ~IsCased(s[i - 1]) THEN UpperChar(s[i]) ELSE LowerChar(s[i])]

\* the record extract_timesheet_data_pdf returns alone when the page has no
\* header line or no line of hours
pdf_no_match(date_range) ==
    [Name |-> <<>>,
     Matched_As |-> No_match,
     Ratio |-> Zero,
     Weekday_Hours |-> Some(0),
     Saturday_Hours |-> Some(0),
     Sunday_Hours |-> Some(0),
     Total_Hours |-> None,
     Rate |-> 0,
     Calculated_Pay |-> None,
     Date_Range |-> date_range]

\* the record of one line of hours of the page
pdf_result(line, date_range, dir, threshold) ==
    extract_timesheet_data("app",
                           [Name |-> Title(line.Name), daily_data |-> line.daily_data,
                            Date_Range |-> date_range],
                           dir, threshold)

\* extract_timesheet_data_pdf: one record for every line of hours below the
\* header line
extract_timesheet_data_pdf(file, dir, threshold) ==
    IF ~file.header \/ file.lines = <<>>
    THEN <<pdf_no_match(file.Date_Range)>>
    ELSE [i \in 1..Len(file.lines) |->
             pdf_result(file.lines[i], file.Date_Range, dir, threshold)]

\* the records with a name
Named(results) == SelectSeq(results, LAMBDA r : r.Name # <<>>)

\* the record of a .docx file, named after the file when it holds no name
docx_record(file, dir, threshold) ==
    The({ IF rec.Name = <<>> THEN [rec EXCEPT !.Name = Title(file.stem)] ELSE rec
          : rec \in {extract_timesheet_data("app", file, dir, threshold)} })

RECURSIVE upload_loop(_, _, _)
\* for i, file in enumerate(uploaded_files): the records appended to all_rows
upload_loop(files, dir, threshold) ==
    IF files = <<>> THEN <<>>
    ELSE (IF Head(files).kind = "docx"
          THEN <<docx_record(Head(files), dir, threshold)>>
          ELSE Named(extract_timesheet_data_pdf(Head(files), dir, threshold)))
         \o upload_loop(Tail(files), dir, threshold)

\* highlight_low_ratio: the cells of the column Ratio that are coloured
highlight_low_ratio(val, threshold) == ~RatGeq(val, threshold)

\* a name of fourteen letters and the same name followed by nineteen others
LongKey == [i \in 1..14 |-> "a"]

LongName == [i \in 1..33 |-> IF i <= 14 THEN "a" ELSE "b"]

\* a rate sheet with the long name
LongSheet ==
    << [Name |-> Str(LongKey), PayRate |-> Num(1200)],
       [Name |-> Str(<<"b", "a">>), PayRate |-> Num(1000)] >>

RecordSheets == {SessionSheet, LongSheet}

OneDay == << [weekday |-> "Monday", hours |-> 800] >>

\* the names of the files and of the lines of the pages
RecordNames == {<<"A", "b">>, <<"a", "b", "b">>, <<"b", "b", "b">>, LongName}

\* .docx files, one of them without a name, and first pages of .pdf files:
\* without a header line, with a header line and no line of hours, with a
\* line of hours for each name
RecordUploads ==
    {[kind |-> "docx", Name |-> n, stem |-> <<"b", "a">>, daily_data |-> OneDay,
      Date_Range |-> "01.01.2024-07.01.2024"] : n \in RecordNames \cup {<<>>}}
    \cup {[kind |-> "pdf", header |-> h, lines |-> <<>>,
           Date_Range |-> "01.01.2024-07.01.2024"] : h \in BOOLEAN}
    \cup {[kind |-> "pdf", header |-> TRUE,
           lines |-> <<[Name |-> n, daily_data |-> OneDay]>>,
           Date_Range |-> "01.01.2024-07.01.2024"] : n \in RecordNames}

UploadLists == UNION {[1..k -> RecordUploads] : k \in 0..MaxFiles}

InitRecord ==
    /\ variant = "app"
    /\ last_call = "none"
    /\ NoNormCall
    /\ \E rows \in RecordSheets : Loaded(variant, rows)
    /\ SIMILARITY_THRESHOLD = SIMILARITY_THRESHOLD_0
    /\ extracted_name = <<>>
    /\ NoMatchCall
    /\ NoPayCall
    /\ NoSession
    /\ uploaded_files \in UploadLists
    /\ df = <<>>
    /\ timesheet_entries = <<>>
    /\ override_applied = None
    /\ raised = "none"
    /\ ws = <<>>
    /\ new_thresh = SIMILARITY_THRESHOLD_0
    /\ rate_file = rate_rows

\* app.py 476-495: the loop over the uploaded files builds df
BuildTable ==
    /\ last_call = "none"
    /\ uploaded_files # <<>>
    /\ last_call' = "upload_loop"
    /\ df' = upload_loop(uploaded_files, Directory, SIMILARITY_THRESHOLD_0)
    /\ UNCHANGED <<variant, normVars, dirVars, SIMILARITY_THRESHOLD, callVars, sessionVars,
                   uploaded_files, timesheet_entries, override_applied, raised, ws,
                   new_thresh, rate_file>>

NextRecord == BuildTable

SpecRecord == InitRecord /\ [][NextRecord]_vars

(***************************************************************************)
(* Properties of normalize_name                                            *)
(***************************************************************************)
\* C7: normalize_name is idempotent: normalizing the result of normalize_name
\* gives the same string
C7_Idempotent ==
    last_call = "normalize_name" => given_norm_again = given_norm

\* C8: two raw names that differ only in letter case, in accent marks or in
\* punctuation characters have the same normalize_name result
C8_SameCanonicalName ==
    last_call = "normalize_name" => alt_norm = given_norm

(***************************************************************************)
(* Properties of lookup_match                                              *)
(***************************************************************************)
\* the canonical form of the name looked up
Canonical == normalize(variant, extracted_name)

Looked == last_call = "lookup_match"

\* the stored entry of a key: exact match, no ratio computed
IsExactEntry(m, k) ==
    /\ m.matched_raw = Some(DictGet(norm_to_raw, k))
    /\ m.rate = DictGet(normalized_rates, k)
    /\ m.ratio = One
    /\ m.ratio_calls = 0

Absent(matched_raw) == matched_raw = None \/ matched_raw = Some(<<>>)

\* C2: the matched name is absent exactly when the confidence is below the
\* threshold, and an absent name comes with the default rate
C2_AbsentIffBelowThreshold ==
    Looked =>
        /\ Absent(match.matched_raw) <=> ~RatGeq(match.ratio, SIMILARITY_THRESHOLD)
        /\ Absent(match.matched_raw) => match.rate = DEFAULT_RATE

\* the similarity ratios of the canonical name and the directory keys
Ratios == {SequenceMatcher_ratio(normalized_keys[i], Canonical) : i \in 1..Len(normalized_keys)}

\* the largest of a set of ratios, 0.0 for the empty set
MaxOf(ratios) == CHOOSE r \in ratios \cup {Zero} : \A q \in ratios : RatGeq(r, q)

\* the largest similarity ratio over all directory keys
MaxRatio == MaxOf(Ratios)

\* the keys that have ratio r, by their place in insertion order
PlacesOf(r) ==
    {i \in 1..Len(normalized_keys) : SequenceMatcher_ratio(normalized_keys[i], Canonical) = r}

BestPlaces == PlacesOf(MaxRatio)

\* the first of a set of places
FirstOf(places) == CHOOSE i \in places : \A j \in places : i <= j

\* the result is the entry of key k with confidence r
IsFuzzyEntry(m, k, r) ==
    /\ m.matched_raw = Some(DictGet(norm_to_raw, k))
    /\ m.rate = DictGet(normalized_rates, k)
    /\ m.ratio = r

\* the result is a rejection with confidence r
IsRejection(m, r) ==
    /\ m.matched_raw = None
    /\ m.rate = DEFAULT_RATE
    /\ m.ratio = r
    /\ (normalized_keys = <<>> => r = Zero)

\* a largest ratio r that reaches the threshold gives the entry of the first
\* key that has it
AcceptsFirstBest(m, r) ==
    RatGeq(r, SIMILARITY_THRESHOLD)
        => IsFuzzyEntry(m, normalized_keys[FirstOf(PlacesOf(r))], r)

\* a largest ratio r below the threshold gives a rejection that reports it
RejectsWithBest(m, r) ==
    ~RatGeq(r, SIMILARITY_THRESHOLD) => IsRejection(m, r)

\* the name is not empty and is no key: the fuzzy scan decides
Fuzzy ==
    /\ Looked
    /\ variant = "app"
    /\ Canonical # <<>>
    /\ ~DictHas(normalized_rates, Canonical)

\* C3: when the largest ratio reaches the threshold, the result is the raw
\* name and rate of the first key in insertion order that has the largest
\* ratio, with that ratio as confidence
C3_BestKeyFirstOnTie ==
    Fuzzy => AcceptsFirstBest(match, MaxRatio)

\* two keys with different rates tie for the largest ratio and it is accepted
C3_Witness ==
    /\ Fuzzy
    /\ RatGeq(MaxRatio, SIMILARITY_THRESHOLD)
    /\ \E i, j \in BestPlaces :
          DictGet(normalized_rates, normalized_keys[i])
              # DictGet(normalized_rates, normalized_keys[j])
    /\ match.matched_raw # None

\* C4: when no key reaches the threshold, the result is an absent name, the
\* default rate and the largest ratio (0.0 for an empty directory)
C4_RejectedKeepsBestRatio ==
    Fuzzy => RejectsWithBest(match, MaxRatio)

\* a rejection that reports a ratio above 0.0
C4_Witness ==
    /\ Fuzzy
    /\ ~RatGeq(MaxRatio, SIMILARITY_THRESHOLD)
    /\ match.matched_raw = None
    /\ match.ratio # Zero

\* the match of the same name and directory under another threshold
MatchUnder(t) == lookup_match(variant, extracted_name, Directory, t)

\* C5: with name and directory fixed, a match rejected under a threshold is
\* rejected under every higher one, and a match accepted under a threshold is
\* accepted under every lower one
C5_ThresholdMonotone ==
    Looked => \A t \in SliderValues :
        /\ (RatGeq(t, SIMILARITY_THRESHOLD) /\ match.matched_raw = None)
               => MatchUnder(t).matched_raw = None
        /\ (RatGeq(SIMILARITY_THRESHOLD, t) /\ match.matched_raw # None)
               => MatchUnder(t).matched_raw # None

\* a match that is rejected here and accepted under a lower threshold
C5_Witness ==
    /\ Looked
    /\ match.matched_raw = None
    /\ \E t \in SliderValues :
          /\ RatGeq(SIMILARITY_THRESHOLD, t)
          /\ MatchUnder(t).matched_raw # None

\* C6: a raw name whose canonical form is empty gets an absent name, the
\* default rate and confidence 0.0, whatever the directory holds
C6_EmptyCanonicalName ==
    (Looked /\ Canonical = <<>>) =>
        /\ Absent(match.matched_raw)
        /\ match.rate = DEFAULT_RATE
        /\ match.ratio = Zero

(***************************************************************************)
(* Properties of calculate_pay                                             *)
(***************************************************************************)
Paid == last_call = "calculate_pay"

RECURSIVE SumOfHours(_)
\* the hours of all entries
SumOfHours(entries) ==
    IF entries = <<>> THEN 0 ELSE Head(entries).hours + SumOfHours(Tail(entries))

\* C9: the weekday, Saturday and Sunday totals add up to the hours of all
\* entries given
C9_HoursAddUp ==
    Paid => pay.weekday_hours + pay.sat_hours + pay.sun_hours = SumOfHours(daily)

\* three entries, two of them Saturdays and one a weekday
C9_Witness ==
    /\ Paid
    /\ Len(daily) = 3
    /\ Cardinality({i \in 1..3 : daily[i].weekday = "Saturday"}) = 2
    /\ pay.weekday_hours > 0
    /\ pay.sat_hours > 0

\* C10: total_pay is regular pay + overtime pay + Saturday pay + Sunday pay
C10_PayAdditive ==
    Paid => pay.total_pay = pay.pay_regular + pay.pay_overtime + pay.pay_sat + pay.pay_sun

\* a pay of four parts, none of them 0
C10_Witness ==
    /\ Paid
    /\ pay.pay_regular > 0
    /\ pay.pay_overtime > 0
    /\ pay.pay_sat > 0
    /\ pay.pay_sun > 0

\* x hours in hundredths, x pounds in pence
Hours(x) == 100 * x
Pounds(x) == 100 * x

\* an amount of h hundredths of an hour at r pence, times num/4, in quarters
PayAt(h, r, num) == h * r * num

\* C11: the weekday total w is paid min(w, 50) hours at 1.0 x rate as regular
\* pay and max(0, w - 50) hours at 1.5 x rate as overtime pay, and the two
\* add up to w; at w = 50 the overtime pay is 0, at w = 50.01 it is
\* 0.01 * rate * 1.5, at w = 60 regular pay is 50 * rate and overtime pay
\* 10 * rate * 1.5
C11_OvertimeBoundary ==
    Paid =>
        /\ pay.regular_wd = Smaller(pay.weekday_hours, Hours(50))
        /\ pay.overtime = Max(0, pay.weekday_hours - Hours(50))
        /\ pay.regular_wd + pay.overtime = pay.weekday_hours
        /\ pay.pay_regular = PayAt(pay.regular_wd, pay.rate, 4)
        /\ pay.pay_overtime = PayAt(pay.overtime, pay.rate, 6)
        /\ (pay.weekday_hours = Hours(50) => pay.pay_overtime = 0)
        /\ (pay.weekday_hours = Hours(50) + 1 => pay.pay_overtime = PayAt(1, pay.rate, 6))
        /\ (pay.weekday_hours = Hours(60) =>
               /\ pay.pay_regular = PayAt(Hours(50), pay.rate, 4)
               /\ pay.pay_overtime = PayAt(Hours(10), pay.rate, 6))

\* a weekday total of 50.01 hours, paid a hundredth of an hour of overtime
C11_Witness ==
    /\ Paid
    /\ pay.weekday_hours = Hours(50) + 1
    /\ pay.overtime = 1
    /\ pay.pay_overtime > 0

\* the entries of some days only
OnDays(daily_data, days) == SelectSeq(daily_data, LAMBDA e : e.weekday \in days)

\* the pay of the same name for other daily entries
PayOf(daily_data) == calculate_pay(extracted_name, daily_data, Directory, SIMILARITY_THRESHOLD)

\* the weekend pays are those of the run without the weekday entries, the
\* weekday pays those of the run without the weekend entries
SameWeekendPay(p, weekend_only, weekdays_only) ==
    /\ p.pay_sat = weekend_only.pay_sat
    /\ p.pay_sun = weekend_only.pay_sun
    /\ p.pay_regular = weekdays_only.pay_regular
    /\ p.pay_overtime = weekdays_only.pay_overtime

\* C12: Saturday pay is saturday hours * rate * 1.5 and Sunday pay is Sunday
\* hours * rate * 1.75 whatever the weekday hours are, and weekend hours do
\* not change regular or overtime pay
C12_WeekendIndependent ==
    Paid =>
        /\ pay.pay_sat = PayAt(pay.sat_hours, pay.rate, 6)
        /\ pay.pay_sun = PayAt(pay.sun_hours, pay.rate, 7)
        /\ SameWeekendPay(pay, PayOf(OnDays(daily, {"Saturday", "Sunday"})),
                          PayOf(OnDays(daily, {"Monday"})))

\* weekend hours next to weekday hours beyond the overtime threshold
C12_Witness ==
    /\ Paid
    /\ pay.weekday_hours > Hours(50)
    /\ pay.sat_hours > 0
    /\ pay.sun_hours > 0
    /\ pay.pay_sat = PayOf(OnDays(daily, {"Saturday", "Sunday"})).pay_sat

\* 45 weekday hours, 8 Saturday hours, 4 Sunday hours
SmithDaily ==
    << [weekday |-> "Monday", hours |-> Hours(45)],
       [weekday |-> "Saturday", hours |-> Hours(8)],
       [weekday |-> "Sunday", hours |-> Hours(4)] >>

\* x pounds of pay, in quarters of (hundredth of an hour x penny)
PayPounds(x) == 4 * 100 * Pounds(x)

SmithRun ==
    /\ Paid
    /\ rate_rows = SmithSheet
    /\ extracted_name = JOHN_SMITH
    /\ daily = SmithDaily

\* C13: with only John Smith at 20.0 in the directory, "JOHN SMITH" with 45
\* weekday, 8 Saturday and 4 Sunday hours gives matched name "John Smith",
\* confidence 1.0, weekday hours 45, regular pay 900, overtime pay 0,
\* Saturday pay 240, Sunday pay 140, total pay 1280
C13_ScenarioJohnSmith ==
    SmithRun =>
        /\ pay.matched_raw = Some(John_Smith)
        /\ pay.ratio = One
        /\ pay.weekday_hours = Hours(45)
        /\ pay.pay_regular = PayPounds(900)
        /\ pay.pay_overtime = 0
        /\ pay.pay_sat = PayPounds(240)
        /\ pay.pay_sun = PayPounds(140)
        /\ pay.total_pay = PayPounds(1280)

\* the run of the scenario, paid at 20.00
C13_Witness ==
    /\ SmithRun
    /\ normalized_keys = <<normalize_name(JOHN_SMITH)>>
    /\ pay.rate = Pounds(20)

(***************************************************************************)
(* Properties of the load of the rate tables                               *)
(***************************************************************************)
DirectoryBuilt == last_call = "load_rate_database"

\* a row that is to be kept: a name that is not blank, a numeric rate
GoodRow(row) ==
    /\ ~row.Name.nan
    /\ Strip(row.Name.str) # <<>>
    /\ row.PayRate.kind = "num"

\* the canonical name of a row
KeyOfRow(row) == normalize(variant, Strip(row.Name.str))

\* the places of the good rows of a canonical name
PlacesOfKey(rows, k) ==
    {i \in 1..Len(rows) : GoodRow(rows[i]) /\ KeyOfRow(rows[i]) = k}

\* the last of a set of places
LastOf(places) == CHOOSE i \in places : \A j \in places : j <= i

\* the entry of key k is that of the row, and a lookup of the row's name
\* gives the row's rate
IsEntryOfRow(k, row) ==
    /\ DictGet(normalized_rates, k) = row.PayRate.val
    /\ DictGet(norm_to_raw, k) = Strip(row.Name.str)
    /\ lookup_match(variant, row.Name.str, Directory, SIMILARITY_THRESHOLD).rate
           = row.PayRate.val

\* C14: after the load, every canonical key has the rate and raw name of the
\* last kept row of that canonical name, in load order over rows and tables,
\* and a lookup of a worker defined in two tables returns the later rate
C14_LastWriteWins ==
    DirectoryBuilt =>
        \A n \in 1..Len(normalized_rates) :
            /\ PlacesOfKey(rate_rows, normalized_rates[n][1]) # {}
            /\ IsEntryOfRow(normalized_rates[n][1],
                            rate_rows[LastOf(PlacesOfKey(rate_rows, normalized_rates[n][1]))])

RECURSIVE GoodRowsOf(_)
\* the tables without the rows that are to be dropped
GoodRowsOf(tables) ==
    IF tables = <<>> THEN <<>>
    ELSE <<SelectSeq(Head(tables), GoodRow)>> \o GoodRowsOf(Tail(tables))

\* C15: every entry of the directory has a raw name that is not blank and a
\* numeric rate: a row with a rate that is not numeric or is missing, or with
\* a blank name, adds no entry and overwrites none, and the directory is that
\* of the other rows
C15_BadRowsDropped ==
    DirectoryBuilt =>
        /\ \A n \in 1..Len(custom_rates) :
              /\ custom_rates[n][1] # <<>>
              /\ custom_rates[n][2] # NaN
        /\ Directory = LoadSources(variant, GoodRowsOf(rate_sources))

(***************************************************************************)
(* Properties of the reading of hours                                      *)
(***************************************************************************)
\* a text that is a number: a signed decimal literal
IsNumericText(s) == IsDecimal(Unsigned(Strip(s)))

\* the rows whose hours are to be counted
CountedRow(row) ==
    row.day_txt # "" /\ ~IsDash(Strip(row.hrs_txt)) /\ IsNumericText(row.hrs_txt)

\* C16: an hours value that cannot be parsed counts as 0 hours: hhmm_to_float
\* gives 0.0 for every token that is not a well-formed H:MM, and a .docx row
\* whose hours cell is not numeric adds no daily entry, while every other
\* row adds its own
C16_UnparseableIsZero ==
    /\ (last_call = "hhmm_to_float" /\ ~time_re_match(hhmm)) => hhmm_hours = 0
    /\ last_call = "extract_timesheet_data" =>
          /\ Len(daily) = Len(SelectSeq(docx_rows, CountedRow))
          /\ \A i \in 1..Len(daily) : daily[i].hours # NaN

(***************************************************************************)
(* Properties of the manual override                                       *)
(***************************************************************************)
\* the (name, matched name, confidence, rate) of the records a script holds:
\* the rows of df in app - better.py and app - good.py, the rows of
\* timesheet_entries in app.py and app_100%.py
Records ==
    IF variant \in SessionScripts
    THEN {[name |-> df[i].Name, matched_as |-> df[i].Matched_As, ratio |-> df[i].Ratio,
           rate |-> df[i].Rate] : i \in 1..Len(df)}
    ELSE {[name |-> timesheet_entries[i].name, matched_as |-> timesheet_entries[i].matched_as,
           ratio |-> timesheet_entries[i].ratio, rate |-> timesheet_entries[i].rate] :
              i \in 1..Len(timesheet_entries)}

\* the last run applied an override
Overridden == override_applied # None

\* the records of the name the override was applied to
OverriddenRecords == {r \in Records : r.name = override_applied[1].name}

\* C17: after a manual override with a directory entry picked in the editor,
\* every record of the overridden name has the chosen entry's raw name as its
\* matched name and confidence 1.0
C17_OverrideSetsMatch ==
    Overridden =>
        \A r \in OverriddenRecords :
            /\ r.matched_as = override_applied[1].chosen
            /\ r.ratio = One

\* the rows of df of the name the override was applied to
OverriddenRows == {i \in 1..Len(df) : df[i].Name = override_applied[1].name}

\* the hours of the file a row of df was extracted from
OriginalHours(i) == TallyHours(NoHours, uploaded_files[i].daily_data)

\* the record as the extraction made it
Extracted(i) == all_rows(variant, uploaded_files, Directory, SIMILARITY_THRESHOLD_0)[i]

\* min(wd,50)*r + max(wd-50,0)*r*1.5 + sat*r*1.5 + sun*r*1.75, in quarters
PayOfHours(hours, r) ==
    PayAt(Smaller(hours.weekday_hours, Hours(50)), r, 4)
        + PayAt(Max(hours.weekday_hours - Hours(50), 0), r, 6)
        + PayAt(hours.sat_hours, r, 6)
        + PayAt(hours.sun_hours, r, 7)

\* the row has the hours the extraction gave it
SameHours(row, extracted) ==
    /\ row.Weekday_Hours = extracted.Weekday_Hours
    /\ row.Saturday_Hours = extracted.Saturday_Hours
    /\ row.Sunday_Hours = extracted.Sunday_Hours
    /\ row.Total_Hours = extracted.Total_Hours

\* the row has the rate r and the pay of its original hours at r
Repaid(row, hours, r) ==
    /\ row.Rate = r
    /\ row.Calculated_Pay = Some(PayOfHours(hours, r))

\* C18: after a manual override in app - better.py or app - good.py, every
\* record of the overridden name has the chosen entry's rate r, its hours
\* unchanged, and as pay min(wd,50)*r + max(wd-50,0)*r*1.5 + sat*r*1.5 +
\* sun*r*1.75 of its original hours
C18_OverrideRecomputesPay ==
    (variant \in SessionScripts /\ Overridden) =>
        \A i \in OverriddenRows :
            /\ SameHours(df[i], Extracted(i))
            /\ Repaid(df[i], OriginalHours(i), DictGet(custom_rates, override_applied[1].chosen))

(***************************************************************************)
(* Properties of the match status                                          *)
(* No script stores a status.  A name is Unresolved while no record of it  *)
(* exists and ManuallyResolved when the last run applied an override to    *)
(* it; a record that is as the extraction made it is AutoMatched or        *)
(* Unmatched by its confidence.                                            *)
(***************************************************************************)
\* the scripts with a manual override
OverrideScripts == SessionScripts \cup {"app_100"}

RecordsOf(name) == {r \in Records : r.name = name}

Unresolved(name) == RecordsOf(name) = {}

ManuallyResolved(name) ==
    Overridden /\ override_applied[1].name = name /\ ~Unresolved(name)

\* the (name, matched name, confidence, rate) the extraction gives the files
ExtractedRecords ==
    {[name |-> row.Name, matched_as |-> row.Matched_As, ratio |-> row.Ratio, rate |-> row.Rate] :
        row \in {Extracted(i) : i \in 1..Len(uploaded_files)}}

Unmatched(r) == r \in ExtractedRecords /\ ~RatGeq(r.ratio, SIMILARITY_THRESHOLD_0)

AutoMatched(r) == r \in ExtractedRecords /\ RatGeq(r.ratio, SIMILARITY_THRESHOLD_0)

\* the names of the uploaded files
FileNames == {uploaded_files[i].Name : i \in 1..Len(uploaded_files)}

\* the names a script offers for an override: the unmatched names of the
\* extraction in app - better.py and app - good.py, the rows of the editor in
\* app_100%.py
Overridable ==
    IF variant \in SessionScripts
    THEN unmatched(all_rows(variant, uploaded_files, Directory, SIMILARITY_THRESHOLD_0))
    ELSE {r[1] : r \in dfm(timesheet_entries)}

\* an unmatched record has the default rate
UnmatchedHasDefaultRate == \A r \in Records : Unmatched(r) => r.rate = DEFAULT_RATE

\* an override is offered for every record that is not manually resolved
OverrideOffered ==
    \A r \in Records : (Unmatched(r) \/ AutoMatched(r)) => r.name \in Overridable

\* a step leaves the records of a manually resolved name as they are
ResolvedIsTerminal ==
    \A name \in FileNames : ManuallyResolved(name) => RecordsOf(name)' = RecordsOf(name)

\* a step leaves no name without a record that had one
NeverBackToUnresolved ==
    \A name \in FileNames : ~Unresolved(name) => ~Unresolved(name)'

\* the steps of the match status of a script with a manual override
MatchStatusStep ==
    variant \in OverrideScripts =>
        /\ UnmatchedHasDefaultRate
        /\ OverrideOffered
        /\ ResolvedIsTerminal
        /\ NeverBackToUnresolved

\* C19: in the scripts with a manual override the match status of a record
\* follows Unresolved -> AutoMatched or Unmatched (default rate) by the
\* confidence; an override is possible from Unmatched and from AutoMatched;
\* a ManuallyResolved record is not changed by any later step; no step
\* returns a record to Unresolved
C19_MatchStatusMachine == [][MatchStatusStep]_vars

(***************************************************************************)
(* Properties of the history table                                         *)
(***************************************************************************)
\* the step is a run of the Upload & Review tab
Processing == variant \in StoringScripts /\ last_call' = "upload_and_review"

\* an earlier run has processed the uploaded files
ProcessedBefore == last_call # "none"

\* the table has a row with the matched name and the date range of the record
StoredByMatch(row) ==
    \E i \in 1..Len(timesheet_entries) :
        /\ timesheet_entries[i].matched_as = row.Matched_As
        /\ timesheet_entries[i].date_range = row.Date_Range

\* the records of the batch with no row of their matched name and date range
NewByMatch ==
    SelectSeq(all_rows(variant, uploaded_files, Directory, SIMILARITY_THRESHOLD_0),
              LAMBDA row : ~StoredByMatch(row))

\* the run inserts the records that are new by (matched name, date range)
InsertsNewByMatch == timesheet_entries' = timesheet_entries \o EntriesOf(NewByMatch)

\* the steps of the history table
PersistenceStep ==
    Processing =>
        /\ InsertsNewByMatch
        /\ ProcessedBefore => timesheet_entries' = timesheet_entries

\* C20: a run of the Upload & Review tab inserts the records of the batch that
\* no stored row matches by (matched name, date range), and a run on files
\* an earlier run has processed inserts no row: the table after processing
\* twice is the table after processing once
C20_IdempotentPersistence == [][PersistenceStep]_vars

\* the records of the uploaded files as the extraction makes them
Batch == all_rows(variant, uploaded_files, Directory, SIMILARITY_THRESHOLD_0)

\* a record of the batch has more than 168 weekday hours, more than 24
\* Saturday or Sunday hours, or negative hours
FailsValidation(row) ==
    \/ row.Weekday_Hours[1] > Hours(168)
    \/ row.Saturday_Hours[1] > Hours(24)
    \/ row.Sunday_Hours[1] > Hours(24)
    \/ row.Weekday_Hours[1] < 0
    \/ row.Saturday_Hours[1] < 0
    \/ row.Sunday_Hours[1] < 0

BatchFails(rows) == \E i \in 1..Len(rows) : FailsValidation(rows[i])

\* every record of the batch is in the table shown, in order
AllShown(rows, shown) ==
    /\ Len(shown) = Len(rows)
    /\ \A i \in 1..Len(rows) : EntryOf(shown[i]) = EntryOf(rows[i])

\* a run of the Upload & Review tab of app.py on the batch
ValidationStep(rows) ==
    (variant = "app" /\ Processing) =>
        /\ AllShown(rows, df')
        /\ BatchFails(rows) => timesheet_entries' = timesheet_entries
        /\ ~BatchFails(rows) => timesheet_entries' = timesheet_entries \o EntriesOf(rows)

\* C21: in app.py a batch with a record that fails the validation (weekday
\* hours > 168, Saturday or Sunday hours > 24, negative hours) inserts no row
\* while every record is shown; a batch with no such record inserts every
\* record once
C21_ValidationBlocksInsert == [][ValidationStep(Batch)]_vars

\* a batch of a good record and a failing one was processed: both are shown,
\* none is stored
C21_Witness ==
    /\ variant = "app"
    /\ last_call = "upload_and_review"
    /\ Len(df) = 2
    /\ ~FailsValidation(df[1])
    /\ FailsValidation(df[2])
    /\ timesheet_entries = <<>>

(***************************************************************************)
(* Properties of the exported workbook                                     *)
(***************************************************************************)
\* what calculate_pay computes from the hours and the rate of a row of the sheet
PayOfRow(r) ==
    PayBreakdown(MatchResult(None, r.J, Zero, 0),
                 [weekday_hours |-> r.G, sat_hours |-> r.H, sun_hours |-> r.I])

\* the formulas of a row of the sheet evaluate to the pays p
FormulasGive(sheet, r, p) ==
    /\ FormulaValue(sheet, r.K) = p.pay_regular
    /\ FormulaValue(sheet, r.L) = p.pay_overtime
    /\ FormulaValue(sheet, r.M) = p.pay_sat
    /\ FormulaValue(sheet, r.N) = p.pay_sun
    /\ FormulaValue(sheet, r.O) = p.total_pay

\* C22: in every row of the exported sheet the formulas for regular,
\* overtime, Saturday, Sunday and total pay evaluate to the values
\* calculate_pay computes from the hours and the rate of that row
C22_FormulasEqualPayRule ==
    \A k \in 2..Len(ws) : FormulasGive(ws, ws[k], PayOfRow(ws[k]))

\* a sheet of two records, the second with overtime and weekend hours
C22_Witness ==
    /\ Len(ws) = 3
    /\ ws[3].G > Hours(50)
    /\ ws[3].H > 0
    /\ ws[3].I > 0
    /\ FormulaValue(ws, ws[3].L) > 0

(***************************************************************************)
(* Properties of the final table                                           *)
(***************************************************************************)
\* the hours of a row of df
RowHours(row) ==
    [weekday_hours |-> row.Weekday_Hours[1], sat_hours |-> row.Saturday_Hours[1],
     sun_hours |-> row.Sunday_Hours[1]]

\* C23: in app.py and app - better.py the Calculated Pay of every row of the
\* final table is the total pay of the pay rule for the rate and the weekday,
\* Saturday and Sunday hours of that row
C23_CalculatedPayIsPayRule ==
    variant \in {"app", "better"} =>
        \A i \in 1..Len(df) :
            df[i].Calculated_Pay = Some(PayOfHours(RowHours(df[i]), df[i].Rate))

\* the total_pay calculate_pay returns for the file of row i of df
FullPay(i) ==
    calculate_pay(uploaded_files[i].Name, uploaded_files[i].daily_data,
                  Directory, SIMILARITY_THRESHOLD_0).total_pay

RECURSIVE SumOfFullPay(_, _)
\* the sum of the total_pay of the first k files matched as name
SumOfFullPay(k, name) ==
    IF k = 0 THEN 0
    ELSE (IF df[k].Matched_As = name THEN FullPay(k) ELSE 0) + SumOfFullPay(k - 1, name)

\* a run of app - good.py that ended with the table of the extraction
Extraction == variant = "good" /\ last_call = "rerun"

\* C24: in app - good.py (app - Copy.py builds the same record) the pay
\* stored in a record is the total_pay of calculate_pay at full precision,
\* and the pay of the weekly summary for a name is the sum of the
\* full-precision totals of its records
C24_PayStoredUnrounded ==
    Extraction =>
        /\ \A i \in 1..Len(df) : df[i].Calculated_Pay = Some(FullPay(i))
        /\ \A name \in DOMAIN summary_df(df) :
               summary_df(df)[name] = SumOfFullPay(Len(df), name)

\* the match columns of a record
MatchOf(r) == <<r.Matched_As, r.Ratio, r.Rate>>

\* the record of file i of the uploader matched against threshold t
MatchedAt(i, t) == extract_timesheet_data(variant, uploaded_files[i], Directory, t)

\* a run of app.py has ended
AppRan == variant = "app" /\ last_call \in Clicks \cup {"upload_and_review"}

\* C25: in app.py, once the slider of the Settings tab is at a position,
\* the name matches of the run that read it and of every later run accept
\* or reject against that position: every record of the table the run
\* shows has the match the lookup gives at the threshold of the slider
C25_MatchesUseSlider ==
    AppRan => \A i \in 1..Len(df) : MatchOf(df[i]) = MatchOf(MatchedAt(i, new_thresh))

\* the two buttons that clear the cache
Reloads == {"reload_pay_rates", "reload_pay_details"}

\* the table of a run whose matches all read the directory dir
BatchOf(dir) ==
    FinalTable(variant, all_rows(variant, uploaded_files, dir, SIMILARITY_THRESHOLD_0),
               dir, SIMILARITY_THRESHOLD_0)

\* a step of app.py: the directory is replaced by reload steps only, and
\* then by the directory of the sheet as it is; the table of a run is
\* matched with the one directory the run ended with
CacheStep ==
    variant = "app" =>
        /\ last_call' \notin Reloads => Directory' = Directory
        /\ last_call' \in Reloads => Directory' = load_rate_database(variant, rate_file)
        /\ last_call' # "edit_rate_sheet" => \A dir \in {Directory'} : df' = BatchOf(dir)

\* C26: in app.py the rate directory changes on a reload only: every step
\* that is not a reload, a run of the script after the rate sheet changed
\* included, leaves the directory as it is; a reload replaces it by the
\* directory built from the rate sheet as it then is; and the records of
\* one run are all matched with one directory
C26_DirectoryCachedUntilReload == [][CacheStep]_vars

\* a run of app.py matched an upload with the cached directory after the
\* rate sheet was replaced by a sheet that gives other matches
C26_Witness ==
    /\ variant = "app"
    /\ last_call \in {"upload_and_review", "move_slider"}
    /\ rate_file # rate_rows
    /\ df # <<>>
    /\ df # BatchOf(load_rate_database(variant, rate_file))

\* the fields of a record of df an override leaves alone
KeptOfRow(r) ==
    <<r.Name, r.Weekday_Hours, r.Saturday_Hours, r.Sunday_Hours, r.Total_Hours, r.Date_Range>>

\* the fields of a stored record an edit of its match leaves alone
KeptOfEntry(e) ==
    <<e.name, e.weekday_hours, e.saturday_hours, e.sunday_hours, e.rate, e.date_range>>

\* the history table of app_100%.py when the Matches tab of the run starts
StoredBeforeEdit ==
    Persist(variant, timesheet_entries,
            all_rows(variant, uploaded_files, Directory, SIMILARITY_THRESHOLD_0))

\* old is a prefix of new
IsPrefix(old, new) ==
    /\ Len(old) <= Len(new)
    /\ \A i \in 1..Len(old) : new[i] = old[i]

\* a step of a script: an override for a name changes, in the table the run
\* would show without it, only the match and the pay of the records of
\* the name; an edit of a match changes only the match of the stored
\* records of the name; every other run only adds stored records
FrameStep ==
    /\ (variant \in SessionScripts /\ override_applied' # None) =>
           \A shown \in {BatchOf(Directory)} :
               /\ Len(df') = Len(shown)
               /\ \A i \in 1..Len(shown) :
                      IF shown[i].Name = override_applied'[1].name
                      THEN KeptOfRow(df'[i]) = KeptOfRow(shown[i])
                      ELSE df'[i] = shown[i]
    /\ (variant = "app_100" /\ override_applied' # None) =>
           \A stored \in {StoredBeforeEdit} :
               /\ Len(timesheet_entries') = Len(stored)
               /\ \A i \in 1..Len(stored) :
                      IF stored[i].name = override_applied'[1].name
                      THEN KeptOfEntry(timesheet_entries'[i]) = KeptOfEntry(stored[i])
                      ELSE timesheet_entries'[i] = stored[i]
    /\ (variant \in StoringScripts /\ override_applied' = None) =>
           IsPrefix(timesheet_entries, timesheet_entries')

\* C27: a manual override for a name changes only the match (matched name,
\* confidence, rate) and the pay of the records of that name: their name,
\* hours and date range stay, every field of every record of another name
\* stays, and no other operation changes a record once it is created
C27_OverrideFrame == [][FrameStep]_vars

\* C28: in every record the upload loop of app.py assembles, from a .docx
\* file or a .pdf page, Matched As is "No match" exactly when the Ratio
\* stored in the record, rounded to two decimals, is below
\* SIMILARITY_THRESHOLD: the cells highlight_low_ratio colours are those
\* of the unmatched records
C28_NoMatchIffLowRatio ==
    last_call = "upload_loop" =>
        \A i \in 1..Len(df) :
            df[i].Matched_As = No_match
                <=> highlight_low_ratio(df[i].Ratio, SIMILARITY_THRESHOLD_0)

\* C29: in app_100%.py, after any sequence of uploads of batches, one with
\* two records of the same name and date range included, the history table
\* holds at most one row for each pair of name and date range
C29_OneRowPerNameAndDate ==
    variant = "app_100" =>
        \A i, j \in 1..Len(timesheet_entries) :
            (/\ timesheet_entries[i].name = timesheet_entries[j].name
             /\ timesheet_entries[i].date_range = timesheet_entries[j].date_range)
                => i = j

\* the keys of a dict, as a set
KeySet(d) == {d[i][1] : i \in 1..Len(d)}

RECURSIVE FirstKeys(_, _)
\* the canonical names of the retained rows, each once, in the order of
\* the first row of each
FirstKeys(rows, seen) ==
    IF rows = <<>> THEN seen
    ELSE IF Retained(variant, Head(rows))
              /\ \A i \in 1..Len(seen) : seen[i] # KeyOfRow(Head(rows))
         THEN FirstKeys(Tail(rows), Append(seen, KeyOfRow(Head(rows))))
         ELSE FirstKeys(Tail(rows), seen)

\* load_rate_database of app.py has returned
AppDirectoryBuilt == variant = "app" /\ DirectoryBuilt

\* C30: after load_rate_database of app.py returns (app - Copy.py has the
\* same loop), normalized_rates and norm_to_raw have the same keys,
\* normalized_keys lists those keys once each in the order of their first
\* insertion, and for every key k the raw name norm_to_raw[k] normalizes to
\* k and custom_rates[norm_to_raw[k]] is normalized_rates[k]
C30_DirectoryConsistent ==
    AppDirectoryBuilt =>
        /\ KeySet(normalized_rates) = KeySet(norm_to_raw)
        /\ normalized_keys = FirstKeys(rate_rows, <<>>)
        /\ KeySet(normalized_rates) = {normalized_keys[i] : i \in 1..Len(normalized_keys)}
        /\ \A n \in 1..Len(norm_to_raw) :
               /\ normalize_name(norm_to_raw[n][2]) = norm_to_raw[n][1]
               /\ DictHas(custom_rates, norm_to_raw[n][2])
               /\ DictGet(custom_rates, norm_to_raw[n][2])
                      = DictGet(normalized_rates, norm_to_raw[n][1])

\* the sheet held two retained rows with different raw names and rates and
\* one canonical name
C30_Witness ==
    /\ AppDirectoryBuilt
    /\ \E i, j \in 1..Len(rate_rows) :
          /\ i < j
          /\ Retained(variant, rate_rows[i])
          /\ Retained(variant, rate_rows[j])
          /\ KeyOfRow(rate_rows[i]) = KeyOfRow(rate_rows[j])
          /\ Strip(rate_rows[i].Name.str) # Strip(rate_rows[j].Name.str)
          /\ RowRate(rate_rows[i]) # RowRate(rate_rows[j])

=============================================================================
